---------------------------- MODULE Spec2Model ----------------------------
(***************************************************************************)
(* Model of the shadow-IT detection pipeline: the fusion engine            *)
(* (worker/fusion.py), the behaviour engine (worker/behavior.py), the      *)
(* semantic engine (worker/semantic.py) and the worker orchestrator        *)
(* (worker/worker.py).                                                     *)
(*                                                                         *)
(* Strings the code slices or searches are sequences of one-character      *)
(* strings.  Scores are fixed-point integers in thousandths (0.8 = 800);   *)
(* products are kept exact in finer units and rounded where the code       *)
(* rounds.                                                                 *)
(***************************************************************************)
EXTENDS Integers, Sequences, FiniteSets, TLC

\* ------------------------------------------------------------------------
\* String helpers: Python str methods on character sequences
\* ------------------------------------------------------------------------

LowerChar(c) ==
    CASE c = "A" -> "a" [] c = "B" -> "b" [] c = "C" -> "c" [] c = "D" -> "d"
      [] c = "E" -> "e" [] c = "F" -> "f" [] c = "G" -> "g" [] c = "H" -> "h"
      [] c = "I" -> "i" [] c = "J" -> "j" [] c = "K" -> "k" [] c = "L" -> "l"
      [] c = "M" -> "m" [] c = "N" -> "n" [] c = "O" -> "o" [] c = "P" -> "p"
      [] c = "Q" -> "q" [] c = "R" -> "r" [] c = "S" -> "s" [] c = "T" -> "t"
      [] c = "U" -> "u" [] c = "V" -> "v" [] c = "W" -> "w" [] c = "X" -> "x"
      [] c = "Y" -> "y" [] c = "Z" -> "z" [] OTHER -> c

UpperChar(c) ==
    IF \E u \in { "A", "B", "C", "D", "E", "F", "G", "H", "I", "J", "K", "L", "M",
                  "N", "O", "P", "Q", "R", "S", "T", "U", "V", "W", "X", "Y", "Z" } :
          LowerChar(u) = c
    THEN CHOOSE u \in { "A", "B", "C", "D", "E", "F", "G", "H", "I", "J", "K", "L",
                        "M", "N", "O", "P", "Q", "R", "S", "T", "U", "V", "W", "X",
                        "Y", "Z" } : LowerChar(u) = c
    ELSE c

\* str.upper()
Upper(s) == [i \in 1..Len(s) |-> UpperChar(s[i])]

\* str.lower()
Lower(s) == [i \in 1..Len(s) |-> LowerChar(s[i])]

\* s[n:]
Drop(s, n) == SubSeq(s, n + 1, Len(s))

\* str.strip(): leading and trailing blanks removed
RECURSIVE LStrip(_)
LStrip(s) == IF s # <<>> /\ s[1] = " " THEN LStrip(Tail(s)) ELSE s

RECURSIVE RStrip(_)
RStrip(s) ==
    IF s # <<>> /\ s[Len(s)] = " " THEN RStrip(SubSeq(s, 1, Len(s) - 1)) ELSE s

Strip(s) == RStrip(LStrip(s))

\* str.startswith(p)
StartsWith(s, p) == Len(s) >= Len(p) /\ SubSeq(s, 1, Len(p)) = p

\* str.endswith(p)
EndsWith(s, p) ==
    Len(s) >= Len(p) /\ SubSeq(s, Len(s) - Len(p) + 1, Len(s)) = p

\* p in s
Contains(s, p) ==
    \E i \in 0..(Len(s) - Len(p)) : SubSeq(s, i + 1, i + Len(p)) = p

\* s.split(c)[0]: the part before the first occurrence of the character c
SplitFirst(s, c) ==
    IF \E i \in 1..Len(s) : s[i] = c
    THEN LET k == CHOOSE i \in 1..Len(s) :
                      s[i] = c /\ \A j \in 1..(i - 1) : s[j] # c
         IN  SubSeq(s, 1, k - 1)
    ELSE s

\* Python None in a numeric result field
None == -1

\* ------------------------------------------------------------------------
\* Fusion engine (worker/fusion.py)
\* ------------------------------------------------------------------------

HttpPrefix == <<"h", "t", "t", "p", ":", "/", "/">>
HttpsPrefix == <<"h", "t", "t", "p", "s", ":", "/", "/">>
WwwPrefix == <<"w", "w", "w", ".">>

\* FusionEngine._normalize_domain
Fusion_normalize_domain(domain) ==
    LET d0 == Strip(Lower(domain))
        d1 == IF StartsWith(d0, HttpPrefix) THEN Drop(d0, 7)
              ELSE IF StartsWith(d0, HttpsPrefix) THEN Drop(d0, 8)
              ELSE d0
        d2 == IF StartsWith(d1, WwwPrefix) THEN Drop(d1, 4) ELSE d1
        d3 == SplitFirst(d2, "/")
    IN  SplitFirst(d3, ":")

\* is_match inside _check_explicit_lists: exact or subdomain match
is_match(target_domain, domain_list) ==
    \E i \in 1..Len(domain_list) :
        LET item == Fusion_normalize_domain(domain_list[i])
        IN  target_domain = item \/ EndsWith(target_domain, <<".">> \o item)

\* FusionEngine._check_explicit_lists, whitelist first
MutBlacklistFirst(domain, whitelist, blacklist) ==
    LET clean_domain == Fusion_normalize_domain(domain)
    IN  IF is_match(clean_domain, blacklist)
        THEN [override |-> TRUE, final_risk |-> 1000, risk_level |-> "CRITICAL",
              reason |-> "Domain is blacklisted"]
        ELSE IF is_match(clean_domain, whitelist)
        THEN [override |-> TRUE, final_risk |-> 0, risk_level |-> "SAFE",
              reason |-> "Domain is whitelisted"]
        ELSE [override |-> FALSE, final_risk |-> None, risk_level |-> "UNKNOWN",
              reason |-> ""]

check_explicit_lists(domain, whitelist, blacklist) ==
    LET clean_domain == Fusion_normalize_domain(domain)
    IN  IF is_match(clean_domain, whitelist)
        THEN [override |-> TRUE, final_risk |-> 0, risk_level |-> "SAFE",
              reason |-> "Domain is whitelisted"]
        ELSE IF is_match(clean_domain, blacklist)
        THEN [override |-> TRUE, final_risk |-> 1000, risk_level |-> "CRITICAL",
              reason |-> "Domain is blacklisted"]
        ELSE [override |-> FALSE, final_risk |-> None, risk_level |-> "UNKNOWN",
              reason |-> ""]

\* FusionEngine._calculate_risk_level on an exact score num/den
calculate_risk_level(num, den) ==
    IF 10 * num >= 8 * den THEN "CRITICAL"
    ELSE IF 10 * num >= 6 * den THEN "HIGH"
    ELSE IF 10 * num >= 4 * den THEN "MEDIUM"
    ELSE IF 10 * num >= 2 * den THEN "LOW"
    ELSE "SAFE"

\* method.upper() on the method tokens of the model
UpperMethod(method) ==
    CASE method = "get" -> "GET"
      [] method = "put" -> "PUT"
      [] OTHER -> method

\* FusionEngine._get_method_multiplier, in tenths
get_method_multiplier(method) ==
    CASE UpperMethod(method) = "GET" -> 3
      [] UpperMethod(method) = "POST" -> 10
      [] UpperMethod(method) = "PUT" -> 12
      [] UpperMethod(method) = "DELETE" -> 5
      [] OTHER -> 10

Mebibyte == 1048576

\* FusionEngine._get_upload_multiplier, in tenths; size None counts as 0
get_upload_multiplier(method, size_bytes) ==
    IF UpperMethod(method) \notin {"POST", "PUT"} THEN 10
    ELSE LET size == IF size_bytes = None THEN 0 ELSE size_bytes
         IN  IF size > 50 * Mebibyte THEN 20
             ELSE IF size > 10 * Mebibyte THEN 15
             ELSE IF size > 1 * Mebibyte THEN 12
             ELSE 10

\* FusionEngine._get_behavior_adjustment, in thousandths
get_behavior_adjustment(behavior_result) ==
    IF behavior_result.is_first_visit THEN 150 ELSE 0

safe_roots ==
    << <<"g", "o", "o", "g", "l", "e", ".", "c", "o", "m">>,
       <<"b", "i", "n", "g", ".", "c", "o", "m">>,
       <<"w", "i", "k", "i", "p", "e", "d", "i", "a", ".", "o", "r", "g">>,
       <<"n", "y", "t", "i", "m", "e", "s", ".", "c", "o", "m">> >>

\* FusionEngine._is_content_consumption: worker.semantic defines no
\* OpenRouterSimilarityDetector, so the import raises ImportError and the
\* except branch decides
Fusion_is_content_consumption(domain, url) ==
    LET clean_domain == Fusion_normalize_domain(domain)
    IN  \E i \in 1..Len(safe_roots) : EndsWith(clean_domain, safe_roots[i])

\* round(x, 3) of the exact value num/den, as an integer number of
\* thousandths when den is one thousandth: round half to even
RoundHalfEven(num, den) ==
    LET q == num \div den
        r == num % den
    IN  IF 2 * r > den THEN q + 1
        ELSE IF 2 * r = den THEN (IF q % 2 = 0 THEN q ELSE q + 1)
        ELSE q


\* FusionEngine.__init__: the weights normalised to sum to 1.0, kept as the
\* exact fractions behavior_num/weight_den and semantic_num/weight_den
MutWeightsAsPassed(behavior_weight, semantic_weight, blacklist, whitelist) ==
    [behavior_num |-> behavior_weight, semantic_num |-> semantic_weight,
     weight_den |-> 1, blacklist |-> blacklist, whitelist |-> whitelist]

FusionEngine_init(behavior_weight, semantic_weight, blacklist, whitelist) ==
    LET total == behavior_weight + semantic_weight
    IN  IF total <= 0
        THEN [behavior_num |-> 1, semantic_num |-> 1, weight_den |-> 2,
              blacklist |-> blacklist, whitelist |-> whitelist]
        ELSE [behavior_num |-> behavior_weight, semantic_num |-> semantic_weight,
              weight_den |-> total,
              blacklist |-> blacklist, whitelist |-> whitelist]

\* The result of the content-consumption override (fusion.py 273-287)
ContentConsumptionResult(in) ==
    [domain |-> in.domain, method |-> in.method,
     final_risk_score |-> 0, risk_level |-> "SAFE", override |-> TRUE,
     behavior_score |-> 0, semantic_score |-> 0,
     context_semantic_score |-> None,
     method_multiplier |-> None, upload_multiplier |-> None,
     fusion_method |-> "content_consumption_override"]

\* The result of the whitelist / blacklist override (fusion.py 292-306)
ExplicitListResult(in, ov) ==
    [domain |-> in.domain, method |-> in.method,
     final_risk_score |-> ov.final_risk, risk_level |-> ov.risk_level,
     override |-> TRUE,
     behavior_score |-> None, semantic_score |-> None,
     context_semantic_score |-> None,
     method_multiplier |-> None, upload_multiplier |-> None,
     fusion_method |-> "explicit_list_override"]

\* The weighted fusion (fusion.py 308-374).  context5 is the context-aware
\* semantic score in units of 1e-5; fused_num / fused_den is the exact fused
\* score before rounding.
WeightedResult(self, in) ==
    LET behavior_score == in.behavior_result.behavior_score
        semantic_score == in.semantic_result.risk_score
        method_multiplier == get_method_multiplier(in.method)
        upload_multiplier == get_upload_multiplier(in.method, in.upload_size_bytes)
        context5 == semantic_score * method_multiplier * upload_multiplier
        behavior_adjustment == get_behavior_adjustment(in.behavior_result)
        fused_den == 100000 * self.weight_den
        raw_num == context5 * self.semantic_num
                   + behavior_score * 100 * self.behavior_num
                   + behavior_adjustment * 100 * self.weight_den
        fused_num == IF raw_num < fused_den THEN raw_num ELSE fused_den
    IN  [domain |-> in.domain, method |-> in.method,
         final_risk_score |-> RoundHalfEven(fused_num, 100 * self.weight_den),
         risk_level |-> calculate_risk_level(fused_num, fused_den),
         override |-> FALSE,
         behavior_score |-> behavior_score,
         semantic_score |-> semantic_score,
         context_semantic_score |-> RoundHalfEven(context5, 100),
         method_multiplier |-> method_multiplier,
         upload_multiplier |-> upload_multiplier,
         fusion_method |-> "context_aware_weighted"]

\* FusionEngine.fuse
fuse(self, in) ==
    IF UpperMethod(in.method) = "GET"
       /\ Fusion_is_content_consumption(in.domain, in.url)
    THEN ContentConsumptionResult(in)
    ELSE LET ov == check_explicit_lists(in.domain, self.whitelist, self.blacklist)
         IN  IF ov.override THEN ExplicitListResult(in, ov)
             ELSE WeightedResult(self, in)


\* ------------------------------------------------------------------------
\* State
\* ------------------------------------------------------------------------

VARIABLES
    fusion_engine,   \* the constructed FusionEngine: weights and lists
    fuse_in,         \* the arguments of the fuse call
    fuse_out,        \* what fuse returned; fusion_method = "none" before the call
    redis_client,    \* BehaviorEngine.redis_client: FALSE when it is None
    domain_data,     \* Redis keys behavior:user:U:domain:D, the stored record
    domain_expire,   \* the time those keys expire at, None when they have no TTL
    user_activity,   \* Redis lists behavior:user:U, most recent first
    user_expire,     \* the time those lists expire at, None when they have no TTL
    now,             \* the clock, in half hours
    behavior_out,    \* what BehaviorEngine.analyze returned last
    behavior_calls,  \* number of analyze calls made
    clock_steps,     \* number of times the clock was advanced
    seen,            \* per key: what the calls since the record's creation reported
    domain_cache,    \* ImprovedSemanticDetector._domain_cache
    offline_mode,    \* ImprovedSemanticDetector.offline_mode
    semantic_out,    \* the last analyze call of the semantic engine and its result
    semantic_calls,  \* number of semantic analyze calls made
    processed_count, \* ShadowGuardWorker.processed_count
    alert_count,     \* ShadowGuardWorker.alert_count
    alerts,          \* the alerts published on the alert channel, oldest first
    received,        \* number of event messages the channel has delivered
    last_event,      \* what _handle_message did with the last message
    worker_pc,       \* where the worker process is in __main__ / initialize / run
    running,         \* ShadowGuardWorker.running
    redis_conn,      \* ShadowGuardWorker.redis_client: none, open, unconnected, closed
    pubsub,          \* ShadowGuardWorker.pubsub: none, subscribed, closed
    store_up,        \* whether the Redis server can be reached
    connect_attempts,\* number of _connect_redis calls made
    reconnects,      \* number of reconnections made inside the main loop
    reconnect_failed,\* whether a reconnection inside the main loop has failed
    stats_printed,   \* number of times stop() printed the final statistics
    signals,         \* number of SIGINT / SIGTERM signals delivered
    outages,         \* number of times the store changed between up and down
    exit_code,       \* the status the process exited with, None while it runs
    alert_list,      \* the Redis list "alerts" the dashboard reads, newest first
    update_pc,       \* where a status update stands: idle, or found (read, not yet written)
    update_req,      \* the status update in flight: id, status, index and alert found
    update_result,   \* what the last status update answered: none, ok, not_found
    pushes,          \* number of alerts pushed onto the list
    updates,         \* number of status updates requested
    clears,          \* number of times the list was cleared
    norm_in,         \* a host and the wrapped spelling of it given to the normalizers
    norm_out,        \* what the two _normalize_domain methods return for them
    weights_in,      \* two constructor weight pairs and the arguments of a fuse call
    weights_out,     \* the two engines constructed and what each returns for the call
    rules_in,        \* a RuleEngine's lists and the log event given to analyze
    rules_out,       \* what RuleEngine.analyze returned for it
    engine_pc,       \* per BehaviorEngine instance: idle, or got (between its GET and SET)
    engine_local,    \* per instance: the arguments and existing_data of its call in progress
    completed,       \* per key: number of completed _store_user_activity calls
    store_calls,     \* number of _store_user_activity calls started
    subscriptions,   \* per subscriber: the channel it subscribed to, or none
    queues,          \* per subscriber: the messages published to it and not yet pulled
    accepted,        \* the events POST /logs answered "received" for, in order
    ingested,        \* the events the worker's loop pulled, in order
    ingest_polls,    \* number of get_message calls
    query_out,       \* the last GET /api/alerts: its arguments, the list it read, its answer
    queries          \* number of GET /api/alerts requests

fusion_vars == <<fusion_engine, fuse_in, fuse_out>>

behavior_vars ==
    <<redis_client, domain_data, domain_expire, user_activity, user_expire,
      now, behavior_out, behavior_calls, clock_steps, seen>>

semantic_vars == <<domain_cache, offline_mode, semantic_out, semantic_calls>>

worker_vars == <<processed_count, alert_count, alerts, received, last_event>>

lifecycle_vars ==
    <<worker_pc, running, redis_conn, pubsub, store_up, connect_attempts,
      reconnects, reconnect_failed, stats_printed, signals, outages, exit_code>>

dashboard_vars ==
    <<alert_list, update_pc, update_req, update_result, pushes, updates, clears>>

normalize_vars == <<norm_in, norm_out>>

\* variables of the stand-alone calls of pure methods
weights_vars == <<weights_in, weights_out>>

rules_vars == <<rules_in, rules_out>>

pure_vars == <<normalize_vars, weights_vars, rules_vars>>

shared_vars == <<engine_pc, engine_local, completed, store_calls>>

ingest_vars == <<subscriptions, queues, accepted, ingested, ingest_polls>>

query_vars == <<query_out, queries>>

vars ==
    <<fusion_vars, behavior_vars, semantic_vars, worker_vars, lifecycle_vars,
      dashboard_vars, pure_vars, shared_vars, ingest_vars, query_vars>>

\* what a step of one component leaves alone
not_fusion_vars ==
    <<behavior_vars, semantic_vars, worker_vars, lifecycle_vars, dashboard_vars,
      pure_vars, shared_vars, ingest_vars, query_vars>>
not_behavior_vars ==
    <<fusion_vars, semantic_vars, worker_vars, lifecycle_vars, dashboard_vars,
      pure_vars, shared_vars, ingest_vars, query_vars>>
not_semantic_vars ==
    <<fusion_vars, behavior_vars, worker_vars, lifecycle_vars, dashboard_vars,
      pure_vars, shared_vars, ingest_vars, query_vars>>
\* the worker issues PUBLISH on the alert channel and no list command, so the
\* list "alerts" is among what its steps leave alone
not_worker_vars ==
    <<fusion_vars, behavior_vars, semantic_vars, dashboard_vars, pure_vars,
      shared_vars, ingest_vars, query_vars>>
not_dashboard_vars ==
    <<fusion_vars, behavior_vars, semantic_vars, worker_vars, lifecycle_vars,
      pure_vars, shared_vars, ingest_vars, query_vars>>
not_pure_vars ==
    <<fusion_vars, behavior_vars, semantic_vars, worker_vars, lifecycle_vars,
      dashboard_vars, shared_vars, ingest_vars, query_vars>>
not_shared_vars ==
    <<fusion_vars, semantic_vars, worker_vars, lifecycle_vars, dashboard_vars,
      pure_vars, ingest_vars, query_vars>>
not_ingest_vars ==
    <<fusion_vars, behavior_vars, semantic_vars, worker_vars, lifecycle_vars,
      dashboard_vars, pure_vars, shared_vars, query_vars>>
not_query_vars ==
    <<fusion_vars, behavior_vars, semantic_vars, worker_vars, lifecycle_vars,
      dashboard_vars, pure_vars, shared_vars, ingest_vars>>

\* ------------------------------------------------------------------------
\* Fusion: configurations and inputs
\* ------------------------------------------------------------------------

wetransfer_com == <<"w", "e", "t", "r", "a", "n", "s", "f", "e", "r", ".", "c", "o", "m">>
drive_google_com == <<"d", "r", "i", "v", "e", ".", "g", "o", "o", "g", "l", "e", ".", "c", "o", "m">>
google_com == <<"g", "o", "o", "g", "l", "e", ".", "c", "o", "m">>
github_com == <<"g", "i", "t", "h", "u", "b", ".", "c", "o", "m">>
www_github_com == <<"w", "w", "w", ".", "g", "i", "t", "h", "u", "b", ".", "c", "o", "m">>
nytimes_com == <<"n", "y", "t", "i", "m", "e", "s", ".", "c", "o", "m">>
claude_ai == <<"c", "l", "a", "u", "d", "e", ".", "a", "i">>
files_wetransfer_com == <<"f", "i", "l", "e", "s", ".", "w", "e", "t", "r", "a", "n", "s", "f", "e", "r", ".", "c", "o", "m">>
notwetransfer_com == <<"n", "o", "t", "w", "e", "t", "r", "a", "n", "s", "f", "e", "r", ".", "c", "o", "m">>
raw_wetransfer_url == <<"H", "T", "T", "P", "S", ":", "/", "/", "W", "W", "W", ".", "W", "e", "T", "r", "a", "n", "s", "f", "e", "r", ".", "c", "o", "m", ":", "8", "0", "8", "0", "/", "x">>
raw_github_url == <<"h", "t", "t", "p", ":", "/", "/", "G", "i", "t", "H", "u", "b", ".", "c", "o", "m", "/", "r", "e", "p", "o">>
url_upload == <<"/", "u", "p", "l", "o", "a", "d">>
url_docs == <<"/", "d", "o", "c", "s", "/", "x">>

\* Contents of config/whitelist.json and config/blacklist.json
Whitelists == { <<>>, <<www_github_com>>, <<google_com>> }
Blacklists == { <<wetransfer_com>>, <<wetransfer_com, drive_google_com>> }

\* (behavior_weight, semantic_weight) constructor arguments, in tenths
WeightArgs == { <<3, 7>>, <<0, 0>> }

FuseDomains ==
    { wetransfer_com, raw_wetransfer_url, files_wetransfer_com, notwetransfer_com,
      drive_google_com, github_com, raw_github_url, claude_ai, nytimes_com }
FuseMethods == { "GET", "get", "POST", "PUT", "DELETE", "PATCH" }
FuseUrls == { url_upload, url_docs }
FuseSizes == { 0, 2 * Mebibyte, 11 * Mebibyte, 60 * Mebibyte }
BehaviorScores == { 0, 400, 1000 }
SemanticScores == { 0, 100, 714, 900, 1000 }

NoFuseResult ==
    [domain |-> <<>>, method |-> "", final_risk_score |-> None,
     risk_level |-> "UNKNOWN", override |-> FALSE,
     behavior_score |-> None, semantic_score |-> None,
     context_semantic_score |-> None,
     method_multiplier |-> None, upload_multiplier |-> None,
     fusion_method |-> "none"]

FusionInit ==
    /\ \E w \in WeightArgs, wl \in Whitelists, bl \in Blacklists :
          fusion_engine = FusionEngine_init(w[1], w[2], bl, wl)
    /\ \E d \in FuseDomains, u \in FuseUrls, m \in FuseMethods, sz \in FuseSizes,
          b \in BehaviorScores, f \in BOOLEAN, sr \in SemanticScores :
          fuse_in = [domain |-> d, url |-> u, method |-> m,
                     upload_size_bytes |-> sz,
                     behavior_result |-> [behavior_score |-> b, is_first_visit |-> f],
                     semantic_result |-> [risk_score |-> sr]]
    /\ fuse_out = NoFuseResult

\* One call of FusionEngine.fuse on the drawn arguments
Fuse ==
    /\ fuse_out.fusion_method = "none"
    /\ fuse_out' = fuse(fusion_engine, fuse_in)
    /\ UNCHANGED <<fusion_engine, fuse_in>>
    /\ UNCHANGED not_fusion_vars

\* ------------------------------------------------------------------------
\* Behaviour engine (worker/behavior.py)
\* ------------------------------------------------------------------------

\* Time is counted in half hours
HalfHoursPerHour == 2
HalfHoursPerDay == 48

\* BehaviorEngine.__init__ parameters
history_days == 7
time_window_hours == 24

\* history_days * 24 * 3600 seconds, the TTL given to expire()
HistoryTtl == history_days * HalfHoursPerDay

\* ltrim(user_key, 0, 999) keeps this many activities
ActivityCap == 1000

BehaviorUsers == { "alice" }
BehaviorDomains == { github_com, claude_ai }

\* github.com written with a scheme, www., capitals, a port and a path
wrapped_github_url ==
    <<"h", "t", "t", "p", "s", ":", "/", "/", "w", "w", "w", ".", "G", "i", "t", "H", "u", "b", ".", "c", "o", "m", ":", "8", "0", "8", "0", "/", "x">>
WrappedDomains == { wrapped_github_url }

\* the (user, domain string) pairs _get_domain_key makes keys of
BehaviorKeys == BehaviorUsers \X (BehaviorDomains \cup WrappedDomains)

\* Event timestamps: 10:00, 10:30 and 23:00 of day 0
EventTimes == { 20, 21, 46 }

\* How the connection behaves during one analyze call, as the first failing
\* command of _store_user_activity (0: none) and whether each of the three
\* later reads fails.  The commands are numbered 1..9 in program order
\* (lpush, ltrim, expire, get, set, expire, then the get of the first-visit
\* check, the lrange of the frequency check and the get of the history).
\* DownFrom(k): the connection is lost at command k and stays lost.
\* UpFrom(k): the connection is lost when the call starts and back at
\* command k (k = 10: never).
DownFrom(k) ==
    [wfail |-> IF k <= 6 THEN k ELSE 0,
     rf1 |-> k <= 7, rf2 |-> k <= 8, rf3 |-> k <= 9]
UpFrom(k) ==
    [wfail |-> 1, rf1 |-> 7 < k, rf2 |-> 8 < k, rf3 |-> 9 < k]
AllOk == [wfail |-> 0, rf1 |-> FALSE, rf2 |-> FALSE, rf3 |-> FALSE]
FaultPatterns ==
    { DownFrom(k) : k \in 1..9 } \cup { UpFrom(k) : k \in 2..10 }
FaultEventTimes == { 20, 46 }
EventSizes == { 1024 }

\* No value stored under a domain key (get returns None)
NoRecord ==
    [first_visit |-> None, last_visit |-> None, visit_count |-> 0,
     total_upload_size |-> 0]

\* s[0:n]
Take(s, n) == IF Len(s) <= n THEN s ELSE SubSeq(s, 1, n)

\* BehaviorEngine._store_user_activity.  S is the store, t the time of the
\* call; wfail = k > 0 makes the k-th Redis command of the method raise
\* (1 lpush, 2 ltrim, 3 expire, 4 get, 5 set, 6 expire), which the except
\* clause swallows, leaving the commands before it applied.
\* _store_user_activity writing the event's timestamp as first_visit on
\* every update
MutFirstVisitOverwritten(client, S, t, user_id, domain, timestamp, upload_size, wfail) ==
    IF ~client \/ wfail # 0 THEN S
    ELSE
    LET key == <<user_id, domain>>
        activity_data == [domain |-> domain, timestamp |-> timestamp,
                          upload_size |-> upload_size]
        existing == S.domain_data[key]
        domain_rec == [first_visit |-> timestamp, last_visit |-> timestamp,
                       visit_count |-> existing.visit_count + 1,
                       total_upload_size |-> existing.total_upload_size + upload_size]
    IN  [S EXCEPT !.user_activity[user_id] = Take(<<activity_data>> \o @, ActivityCap),
                  !.user_expire[user_id] = t + HistoryTtl,
                  !.domain_data[key] = domain_rec,
                  !.domain_expire[key] = t + HistoryTtl]

MutStoreResetsCount(client, S, t, user_id, domain, timestamp, upload_size, wfail) ==
    IF ~client \/ wfail = 1 THEN S
    ELSE
    LET key == <<user_id, domain>>
        activity_data == [domain |-> domain, timestamp |-> timestamp,
                          upload_size |-> upload_size]
        S1 == [S EXCEPT !.user_activity[user_id] = <<activity_data>> \o @]
        S2 == [S1 EXCEPT !.user_activity[user_id] = Take(@, ActivityCap)]
        S3 == [S2 EXCEPT !.user_expire[user_id] = t + HistoryTtl]
        domain_rec == [first_visit |-> timestamp, last_visit |-> timestamp,
                       visit_count |-> 1, total_upload_size |-> upload_size]
        S5 == [S3 EXCEPT !.domain_data[key] = domain_rec,
                         !.domain_expire[key] = None]
        S6 == [S5 EXCEPT !.domain_expire[key] = t + HistoryTtl]
    IN  IF wfail = 2 THEN S1
        ELSE IF wfail = 3 THEN S2
        ELSE IF wfail \in {4, 5} THEN S3
        ELSE IF wfail = 6 THEN S5
        ELSE S6

store_user_activity(client, S, t, user_id, domain, timestamp, upload_size, wfail) ==
    IF ~client \/ wfail = 1 THEN S
    ELSE
    LET key == <<user_id, domain>>
        activity_data == [domain |-> domain, timestamp |-> timestamp,
                          upload_size |-> upload_size]
        S1 == [S EXCEPT !.user_activity[user_id] = <<activity_data>> \o @]
        S2 == [S1 EXCEPT !.user_activity[user_id] = Take(@, ActivityCap)]
        S3 == [S2 EXCEPT !.user_expire[user_id] = t + HistoryTtl]
        existing == S3.domain_data[key]
        domain_rec ==
            IF existing # NoRecord
            THEN [first_visit |-> existing.first_visit,
                  last_visit |-> timestamp,
                  visit_count |-> existing.visit_count + 1,
                  total_upload_size |-> existing.total_upload_size + upload_size]
            ELSE [first_visit |-> timestamp, last_visit |-> timestamp,
                  visit_count |-> 1, total_upload_size |-> upload_size]
        \* SET without KEEPTTL drops the key's TTL until expire() restores it
        S5 == [S3 EXCEPT !.domain_data[key] = domain_rec,
                         !.domain_expire[key] = None]
        S6 == [S5 EXCEPT !.domain_expire[key] = t + HistoryTtl]
    IN  IF wfail = 2 THEN S1
        ELSE IF wfail = 3 THEN S2
        ELSE IF wfail \in {4, 5} THEN S3
        ELSE IF wfail = 6 THEN S5
        ELSE S6

\* BehaviorEngine._get_user_domain_history; NoRecord stands for None
get_user_domain_history(client, S, user_id, domain, rfail) ==
    IF ~client \/ rfail THEN NoRecord
    ELSE S.domain_data[<<user_id, domain>>]

\* BehaviorEngine._get_user_recent_activity: the activities newer than the
\* cutoff; one whose timestamp does not parse is skipped
get_user_recent_activity(client, S, t, user_id, hours, rfail) ==
    IF ~client \/ rfail THEN <<>>
    ELSE LET cutoff_time == t - hours * HalfHoursPerHour
             recent(a) == a.timestamp # None /\ a.timestamp > cutoff_time
         IN  SelectSeq(S.user_activity[user_id], recent)

\* BehaviorEngine._analyze_first_time_visit
analyze_first_time_visit(client, S, user_id, domain, rfail) ==
    LET domain_history == get_user_domain_history(client, S, user_id, domain, rfail)
    IN  domain_history = NoRecord \/ domain_history.visit_count <= 1

\* BehaviorEngine._analyze_frequency_anomaly
analyze_frequency_anomaly(client, S, t, user_id, domain, rfail) ==
    LET recent_activities ==
            get_user_recent_activity(client, S, t, user_id, time_window_hours, rfail)
        same(a) == a.domain = domain
        domain_visits == SelectSeq(recent_activities, same)
        visit_count == Len(domain_visits)
        first3 == { domain_visits[i].timestamp : i \in 1..3 }
        lo == CHOOSE x \in first3 : \A y \in first3 : x <= y
        hi == CHOOSE x \in first3 : \A y \in first3 : x >= y
    IN  IF recent_activities = <<>> THEN FALSE
        ELSE IF visit_count > 10 THEN TRUE
        ELSE visit_count >= 3 /\ hi - lo < HalfHoursPerHour

\* BehaviorEngine._analyze_unusual_timing; None is a timestamp that does not parse
analyze_unusual_timing(timestamp) ==
    IF timestamp = None THEN FALSE
    ELSE LET hour == (timestamp \div HalfHoursPerHour) % 24
         IN  hour >= 22 \/ hour <= 6

\* The value BehaviorEngine.analyze returns, computed on the store S1 its
\* own _store_user_activity left.  store_error records whether any Redis
\* access of the call failed or the client is None.
analyze_result(client, S1, t, user_id, domain, timestamp, wfail, rf1, rf2, rf3) ==
    LET is_first_visit == analyze_first_time_visit(client, S1, user_id, domain, rf1)
        is_frequent == analyze_frequency_anomaly(client, S1, t, user_id, domain, rf2)
        is_unusual_time == analyze_unusual_timing(timestamp)
        score == (IF is_first_visit THEN 400 ELSE 0)
                 + (IF is_frequent THEN 500 ELSE 0)
                 + (IF is_unusual_time THEN 300 ELSE 0)
        domain_history == get_user_domain_history(client, S1, user_id, domain, rf3)
    IN  [called |-> TRUE, user_id |-> user_id, domain |-> domain,
         behavior_score |-> IF score < 1000 THEN score ELSE 1000,
         behavior_alerts |->
             (IF is_first_visit THEN {"first_time_visit"} ELSE {})
             \cup (IF is_frequent THEN {"frequency_anomaly"} ELSE {})
             \cup (IF is_unusual_time THEN {"unusual_timing"} ELSE {}),
         domain_history |-> domain_history,
         is_first_visit |-> is_first_visit,
         store_error |-> ~client \/ wfail # 0 \/ rf1 \/ rf2 \/ rf3]

Store ==
    [domain_data |-> domain_data, domain_expire |-> domain_expire,
     user_activity |-> user_activity, user_expire |-> user_expire]

NoBehaviorResult ==
    [called |-> FALSE, user_id |-> "", domain |-> <<>>, behavior_score |-> 0,
     behavior_alerts |-> {}, domain_history |-> NoRecord,
     is_first_visit |-> FALSE, store_error |-> FALSE]

NothingSeen == [calls |-> 0, first |-> FALSE, prev |-> 0, cur |-> 0]

\* Number of analyze calls in one behaviour
MaxCalls == 4

\* Number of analyze calls in one behaviour of the store that may fail
MaxFaultCalls == 2

\* Number of clock steps in one behaviour
MaxClock == 2

\* The state right after BehaviorEngine.__init__ on an empty store
BehaviorInit ==
    /\ redis_client \in BOOLEAN
    /\ domain_data = [k \in BehaviorKeys |-> NoRecord]
    /\ domain_expire = [k \in BehaviorKeys |-> None]
    /\ user_activity = [u \in BehaviorUsers |-> <<>>]
    /\ user_expire = [u \in BehaviorUsers |-> None]
    /\ now = 22
    /\ behavior_out = NoBehaviorResult
    /\ behavior_calls = 0
    /\ clock_steps = 0
    /\ seen = [k \in BehaviorKeys |-> NothingSeen]

\* BehaviorEngine.analyze(log_event)
Analyze(user_id, domain, timestamp, upload_size, wfail, rf1, rf2, rf3) ==
    LET S1 == store_user_activity(redis_client, Store, now, user_id, domain,
                                  timestamp, upload_size, wfail)
        out == analyze_result(redis_client, S1, now, user_id, domain, timestamp,
                              wfail, rf1, rf2, rf3)
        key == <<user_id, domain>>
    IN  /\ behavior_calls' = behavior_calls + 1
        /\ domain_data' = S1.domain_data
        /\ domain_expire' = S1.domain_expire
        /\ user_activity' = S1.user_activity
        /\ user_expire' = S1.user_expire
        /\ behavior_out' = out
        /\ seen' = [seen EXCEPT ![key] =
                       [calls |-> @.calls + 1, first |-> out.is_first_visit,
                        prev |-> @.cur, cur |-> out.domain_history.visit_count]]
        /\ UNCHANGED <<redis_client, now, clock_steps>>
        /\ UNCHANGED not_behavior_vars

\* analyze with every Redis command succeeding
AnalyzeOk ==
    \E u \in BehaviorUsers, d \in BehaviorDomains, ts \in EventTimes,
       sz \in EventSizes :
        /\ behavior_calls < MaxCalls
        /\ redis_client
        /\ Analyze(u, d, ts, sz, 0, FALSE, FALSE, FALSE)

\* analyze, every Redis command succeeding, on an event whose domain field
\* holds a wrapped spelling
AnalyzeWrapped ==
    \E u \in BehaviorUsers, d \in WrappedDomains, ts \in EventTimes,
       sz \in EventSizes :
        /\ behavior_calls < MaxCalls
        /\ redis_client
        /\ Analyze(u, d, ts, sz, 0, FALSE, FALSE, FALSE)

\* analyze on a store whose connection may fail during the call
AnalyzeFault ==
    \E u \in BehaviorUsers, d \in BehaviorDomains, ts \in FaultEventTimes,
       sz \in EventSizes, f \in FaultPatterns \cup {AllOk} :
        /\ behavior_calls < MaxFaultCalls
        /\ Analyze(u, d, ts, sz, f.wfail, f.rf1, f.rf2, f.rf3)

\* Time passes; Redis deletes the keys whose TTL has run out
AdvanceTime ==
    \E dt \in { HalfHoursPerDay, HistoryTtl } :
        /\ clock_steps < MaxClock
        /\ clock_steps' = clock_steps + 1
        /\ now' = now + dt
        /\ LET goneD == { k \in BehaviorKeys :
                            domain_expire[k] # None /\ domain_expire[k] <= now + dt }
               goneU == { u \in BehaviorUsers :
                            user_expire[u] # None /\ user_expire[u] <= now + dt }
           IN  /\ domain_data' = [k \in BehaviorKeys |->
                                     IF k \in goneD THEN NoRecord ELSE domain_data[k]]
               /\ domain_expire' = [k \in BehaviorKeys |->
                                       IF k \in goneD THEN None ELSE domain_expire[k]]
               /\ user_activity' = [u \in BehaviorUsers |->
                                       IF u \in goneU THEN <<>> ELSE user_activity[u]]
               /\ user_expire' = [u \in BehaviorUsers |->
                                     IF u \in goneU THEN None ELSE user_expire[u]]
               /\ seen' = [k \in BehaviorKeys |->
                              IF k \in goneD THEN NothingSeen ELSE seen[k]]
        /\ UNCHANGED <<redis_client, behavior_out, behavior_calls>>
        /\ UNCHANGED not_behavior_vars

\* ------------------------------------------------------------------------
\* Semantic engine (worker/semantic.py)
\* ------------------------------------------------------------------------

\* Similarities and confidences are in hundredths (0.92 = 92), category base
\* risks in hundredths, risk scores in units of 10^-5 (0.1 = 10000) so that
\* the three banded products are exact.

INFORMATIONAL_DOMAINS ==
    << <<"n", "y", "t", "i", "m", "e", "s", ".", "c", "o", "m">>,
       <<"w", "s", "j", ".", "c", "o", "m">>,
       <<"r", "e", "u", "t", "e", "r", "s", ".", "c", "o", "m">>,
       <<"b", "l", "o", "o", "m", "b", "e", "r", "g", ".", "c", "o", "m">>,
       <<"c", "n", "n", ".", "c", "o", "m">>,
       <<"b", "b", "c", ".", "c", "o", "m">>,
       <<"w", "i", "k", "i", "p", "e", "d", "i", "a", ".", "o", "r", "g">>,
       <<"b", "r", "i", "t", "a", "n", "n", "i", "c", "a", ".", "c", "o", "m">>,
       <<"s", "t", "a", "c", "k", "o", "v", "e", "r", "f", "l", "o", "w", ".", "c", "o", "m">>,
       <<"g", "i", "t", "h", "u", "b", ".", "c", "o", "m">>,
       <<"g", "o", "o", "g", "l", "e", ".", "c", "o", "m">>,
       <<"b", "i", "n", "g", ".", "c", "o", "m">>,
       <<"d", "u", "c", "k", "d", "u", "c", "k", "g", "o", ".", "c", "o", "m">> >>
INFORMATIONAL_PATH_PATTERNS ==
    << <<"/", "d", "o", "c", "s">>,
       <<"/", "w", "i", "k", "i">>,
       <<"/", "m", "a", "n", "u", "a", "l">>,
       <<"/", "g", "u", "i", "d", "e">>,
       <<"/", "h", "e", "l", "p">>,
       <<"/", "f", "a", "q">> >>
SEARCH_PATTERNS ==
    << <<"/", "s", "e", "a", "r", "c", "h">>,
       <<"/", "q", "/">>,
       <<"?", "q", "=">>,
       <<"?", "q", "u", "e", "r", "y", "=">> >>
\* the keyword table of _generate_default_risks, risks in hundredths
risk_keywords ==
    << [keyword |-> <<"a", "n", "o", "n", "y", "m", "o", "u", "s">>, risk |-> 85],
       [keyword |-> <<"f", "i", "l", "e", "_", "t", "r", "a", "n", "s", "f", "e", "r">>, risk |-> 90],
       [keyword |-> <<"e", "x", "f", "i", "l", "t", "r", "a", "t", "i", "o", "n">>, risk |-> 95],
       [keyword |-> <<"a", "i">>, risk |-> 90],
       [keyword |-> <<"c", "h", "a", "t", "b", "o", "t">>, risk |-> 90],
       [keyword |-> <<"g", "e", "n", "e", "r", "a", "t", "i", "v", "e">>, risk |-> 90],
       [keyword |-> <<"c", "o", "d", "i", "n", "g">>, risk |-> 90],
       [keyword |-> <<"t", "r", "a", "n", "s", "c", "r", "i", "p", "t", "i", "o", "n">>, risk |-> 90],
       [keyword |-> <<"c", "l", "o", "u", "d", "_", "s", "t", "o", "r", "a", "g", "e">>, risk |-> 90],
       [keyword |-> <<"u", "n", "a", "p", "p", "r", "o", "v", "e", "d">>, risk |-> 90],
       [keyword |-> <<"c", "o", "l", "l", "a", "b", "o", "r", "a", "t", "i", "o", "n">>, risk |-> 60],
       [keyword |-> <<"m", "e", "s", "s", "a", "g", "i", "n", "g">>, risk |-> 60],
       [keyword |-> <<"p", "r", "o", "d", "u", "c", "t", "i", "v", "i", "t", "y">>, risk |-> 65],
       [keyword |-> <<"m", "e", "d", "i", "a">>, risk |-> 60],
       [keyword |-> <<"c", "o", "n", "t", "e", "n", "t", "_", "c", "r", "e", "a", "t", "i", "o", "n">>, risk |-> 60],
       [keyword |-> <<"c", "o", "n", "s", "u", "m", "e", "r">>, risk |-> 45],
       [keyword |-> <<"s", "a", "a", "s">>, risk |-> 45] >>
Letters ==
    { "a", "b", "c", "d", "e", "f", "g", "h", "i", "j", "k", "l", "m",
      "n", "o", "p", "q", "r", "s", "t", "u", "v", "w", "x", "y", "z",
      "A", "B", "C", "D", "E", "F", "G", "H", "I", "J", "K", "L", "M",
      "N", "O", "P", "Q", "R", "S", "T", "U", "V", "W", "X", "Y", "Z" }

\* urllib.parse.scheme_chars
scheme_chars ==
    Letters \cup { "0", "1", "2", "3", "4", "5", "6", "7", "8", "9", "+", "-", "." }

SchemeSep == <<":", "/", "/">>

\* s.find(c) + 1: the position of the first c in s, 0 when there is none
Find(s, c) ==
    IF \E i \in 1..Len(s) : s[i] = c
    THEN CHOOSE i \in 1..Len(s) : s[i] = c /\ \A j \in 1..(i - 1) : s[j] # c
    ELSE 0

\* the part of s before the first character that is in the set cs
UpToAny(s, cs) ==
    IF \E i \in 1..Len(s) : s[i] \in cs
    THEN LET k == CHOOSE i \in 1..Len(s) :
                      s[i] \in cs /\ \A j \in 1..(i - 1) : s[j] \notin cs
         IN  SubSeq(s, 1, k - 1)
    ELSE s

\* urlsplit's scheme step: the URL after its "scheme:" prefix, when the part
\* before the first colon is a valid scheme
after_scheme(url) ==
    LET i == Find(url, ":")
    IN  IF /\ i > 1
           /\ url[1] \in Letters
           /\ \A j \in 1..(i - 1) : url[j] \in scheme_chars
        THEN Drop(url, i)
        ELSE url

\* urlsplit's netloc step: netloc and the rest of a URL whose scheme is removed
split_netloc(url) ==
    IF StartsWith(url, <<"/", "/">>)
    THEN LET netloc == UpToAny(Drop(url, 2), {"/", "?", "#"})
         IN  [netloc |-> netloc, rest |-> Drop(url, 2 + Len(netloc))]
    ELSE [netloc |-> <<>>, rest |-> url]

\* urlparse(domain).netloc or urlparse(domain).path, for a URL without
\* ";" parameters and without a bracketed IPv6 host
netloc_or_path(url) ==
    LET parsed == split_netloc(after_scheme(LStrip(url)))
    IN  IF parsed.netloc # <<>>
        THEN parsed.netloc
        ELSE UpToAny(parsed.rest, {"?", "#"})

\* ImprovedSemanticDetector._normalize_domain
Semantic_normalize_domain(domain) ==
    LET d0 == IF Contains(domain, SchemeSep) THEN netloc_or_path(domain) ELSE domain
        d1 == Strip(Lower(d0))
        d2 == IF StartsWith(d1, WwwPrefix) THEN Drop(d1, 4) ELSE d1
        d3 == SplitFirst(d2, ":")
    IN  SplitFirst(d3, "/")

\* any(pattern in lower_url for pattern in patterns)
AnyPatternIn(lower_url, patterns) ==
    \E i \in 1..Len(patterns) : Contains(lower_url, patterns[i])

\* is_content_consumption matching the listed domains exactly, not their subdomains
MutExactDomainOnly(domain, url) ==
    IF domain = <<>> THEN FALSE
    ELSE LET lower_domain == Lower(domain)
             lower_url == Lower(url)
         IN  IF \E i \in 1..Len(INFORMATIONAL_DOMAINS) :
                    lower_domain = INFORMATIONAL_DOMAINS[i]
             THEN TRUE
             ELSE IF url = <<>> THEN FALSE
             ELSE IF AnyPatternIn(lower_url, SEARCH_PATTERNS) THEN TRUE
             ELSE AnyPatternIn(lower_url, INFORMATIONAL_PATH_PATTERNS)

\* ImprovedSemanticDetector.is_content_consumption
is_content_consumption(domain, url) ==
    IF domain = <<>> THEN FALSE
    ELSE LET lower_domain == Lower(domain)
             lower_url == Lower(url)
         IN  IF \E i \in 1..Len(INFORMATIONAL_DOMAINS) :
                    \/ lower_domain = INFORMATIONAL_DOMAINS[i]
                    \/ EndsWith(lower_domain, <<".">> \o INFORMATIONAL_DOMAINS[i])
             THEN TRUE
             ELSE IF url = <<>> THEN FALSE
             ELSE IF AnyPatternIn(lower_url, SEARCH_PATTERNS) THEN TRUE
             ELSE AnyPatternIn(lower_url, INFORMATIONAL_PATH_PATTERNS)

chatgpt_com == <<"c", "h", "a", "t", "g", "p", "t", ".", "c", "o", "m">>
generative_ai_name == <<"g", "e", "n", "e", "r", "a", "t", "i", "v", "e", "_", "a", "i">>
file_transfer_name == <<"f", "i", "l", "e", "_", "t", "r", "a", "n", "s", "f", "e", "r">>

\* self.categories as loaded from config/anchors.json, in file order
categories ==
    << [name |-> "generative_ai", chars |-> generative_ai_name,
        domains |-> <<claude_ai, chatgpt_com>>],
       [name |-> "file_transfer", chars |-> file_transfer_name,
        domains |-> <<wetransfer_com>>] >>

\* the largest element of a non-empty set of integers
MaxOf(S) == CHOOSE x \in S : \A y \in S : y <= x

\* the risk _generate_default_risks gives one category name
default_risk(category) ==
    LET cat_lower == Lower(category)
        hits == { risk_keywords[i].risk : i \in
                    { j \in 1..Len(risk_keywords) :
                        Contains(cat_lower, risk_keywords[j].keyword) } }
    IN  MaxOf(hits \cup {60})

\* self.category_risks: category_risk_path is never assigned, so the load
\* fails and the defaults are generated; indexed like categories
category_risks == [i \in 1..Len(categories) |-> default_risk(categories[i].chars)]

\* confidence_threshold, the constructor's default
confidence_threshold == 75

\* _compute_similarities_offline
compute_similarities_offline(domain0) ==
    LET domain == Strip(Lower(domain0))
        matches(i) ==
            \E j \in 1..Len(categories[i].domains) :
                LET d == Strip(Lower(categories[i].domains[j]))
                IN  domain = d \/ EndsWith(domain, <<".">> \o d)
    IN  [i \in 1..Len(categories) |-> IF matches(i) THEN 92 ELSE 8]

\* max(sims, key=sims.get): the first category with the largest similarity
TopIndex(sims) ==
    CHOOSE i \in 1..Len(sims) :
        /\ \A j \in 1..Len(sims) : sims[j] <= sims[i]
        /\ \A j \in 1..(i - 1) : sims[j] < sims[i]

\* _calculate_confidence_weighted_risk
calculate_confidence_weighted_risk(sims) ==
    IF sims = <<>>
    THEN [risk |-> 50000, explanation |-> "No similarity data",
          top_cat |-> "unknown"]
    ELSE LET top == TopIndex(sims)
             confidence == sims[top]
             base_risk == category_risks[top]
         IN  IF confidence >= confidence_threshold
             THEN [risk |-> base_risk * confidence * 10,
                   explanation |-> "High-confidence match",
                   top_cat |-> categories[top].name]
             ELSE IF confidence >= 60
             THEN [risk |-> base_risk * 6 * confidence,
                   explanation |-> "Possible match",
                   top_cat |-> categories[top].name]
             ELSE [risk |-> 300 * confidence,
                   explanation |-> "Low-confidence match",
                   top_cat |-> categories[top].name]

\* the result of the content-consumption fast path
ContentConsumptionFastPath(clean_domain) ==
    [domain |-> clean_domain, risk_score |-> 10000,
     top_category |-> "content_consumption", category_type |-> "informational",
     similarities |-> <<>>, explanation |-> "Read-only informational content",
     confidence |-> 100]

\* cache[key] = value on a dict held as a function
DictSet(cache, key, value) ==
    [k \in (DOMAIN cache) \cup {key} |-> IF k = key THEN value ELSE cache[k]]

\* ImprovedSemanticDetector.analyze: the result returned and the cache left.
\* embed is what the embedding service answers for this call: ok FALSE when
\* it fails after the retries, otherwise the cosine similarities it leads to
Semantic_analyze(cache, offline, domain, url, embed) ==
    LET clean_domain == Semantic_normalize_domain(domain)
    IN  IF clean_domain \in DOMAIN cache
        THEN LET cached == cache[clean_domain]
             IN  [result |->
                     IF is_content_consumption(clean_domain, url)
                     THEN [cached EXCEPT !.risk_score = 10000,
                                         !.top_category = "content_consumption",
                                         !.category_type = "informational",
                                         !.explanation = "Read-only informational content"]
                     ELSE cached,
                  cache |-> cache, cache_hit |-> TRUE]
        ELSE IF is_content_consumption(clean_domain, url)
        THEN [result |-> ContentConsumptionFastPath(clean_domain),
              cache |-> DictSet(cache, clean_domain,
                                ContentConsumptionFastPath(clean_domain)),
              cache_hit |-> FALSE]
        ELSE LET sims == IF offline \/ ~embed.ok
                         THEN compute_similarities_offline(clean_domain)
                         ELSE embed.sims
                 r == calculate_confidence_weighted_risk(sims)
                 result == [domain |-> clean_domain, risk_score |-> r.risk,
                            top_category |-> r.top_cat, category_type |-> r.top_cat,
                            similarities |-> sims, explanation |-> r.explanation,
                            confidence |-> IF sims # <<>> THEN sims[TopIndex(sims)] ELSE 0]
             IN  [result |-> result,
                  cache |-> DictSet(cache, clean_domain, result),
                  cache_hit |-> FALSE]

en_wikipedia_org == <<"e", "n", ".", "w", "i", "k", "i", "p", "e", "d", "i", "a", ".", "o", "r", "g">>
raw_nytimes_url == <<"h", "t", "t", "p", "s", ":", "/", "/", "w", "w", "w", ".", "N", "Y", "T", "i", "m", "e", "s", ".", "c", "o", "m", "/", "s", "e", "c", "t", "i", "o", "n", "/", "w", "o", "r", "l", "d">>
mygithub_com == <<"m", "y", "g", "i", "t", "h", "u", "b", ".", "c", "o", "m">>
url_search == <<"/", "s", "e", "a", "r", "c", "h", "?", "q", "=", "a">>
url_chat == <<"/", "c", "h", "a", "t">>

\* the domain and url arguments analyze is called with
SemDomains ==
    { claude_ai, wetransfer_com, en_wikipedia_org, raw_nytimes_url, mygithub_com }
SemUrls == { <<>>, url_chat, url_docs, url_search }

\* what the embedding service can answer: a failure, or similarities in the
\* high, the middle and the low confidence band
EmbedFailed == [ok |-> FALSE, sims |-> <<>>]
EmbedAnswers ==
    { EmbedFailed } \cup
    { [ok |-> TRUE, sims |-> s] : s \in { <<80, 30>>, <<30, 65>>, <<30, 50>> } }

NoSemanticResult ==
    [called |-> FALSE, domain_arg |-> <<>>, url_arg |-> <<>>, cache_hit |-> FALSE,
     result |-> [domain |-> <<>>, risk_score |-> None, top_category |-> "none",
                 category_type |-> "none", similarities |-> <<>>,
                 explanation |-> "none", confidence |-> None]]

\* number of analyze calls explored
MaxSemCalls == 2

\* The state right after ImprovedSemanticDetector.__init__
SemanticInit ==
    /\ domain_cache = [k \in {} |-> NoSemanticResult.result]
    /\ offline_mode \in BOOLEAN
    /\ semantic_out = NoSemanticResult
    /\ semantic_calls = 0

\* One call detector.analyze(domain, url)
SemanticAnalyze ==
    \E d \in SemDomains, u \in SemUrls, e \in EmbedAnswers :
        /\ semantic_calls < MaxSemCalls
        /\ (offline_mode => e = EmbedFailed)
        /\ LET a == Semantic_analyze(domain_cache, offline_mode, d, u, e)
           IN  /\ domain_cache' = a.cache
               /\ semantic_out' = [called |-> TRUE, domain_arg |-> d, url_arg |-> u,
                                   cache_hit |-> a.cache_hit, result |-> a.result]
        /\ semantic_calls' = semantic_calls + 1
        /\ UNCHANGED offline_mode
        /\ UNCHANGED not_semantic_vars

\* ------------------------------------------------------------------------
\* Worker orchestrator (worker/worker.py)
\* ------------------------------------------------------------------------

\* the channel _publish_alert publishes on
alert_channel == "alerts"

\* the fields _process_log_event requires
required_fields == { "ts", "user_id", "domain", "url", "method" }

\* risk_threshold, as _initialize_engines passes it to RiskFusion (0.75)
risk_threshold == 750

\* The message bodies the channel can deliver: text that is not JSON, or a
\* JSON object with the listed fields, its domain a host name, the empty
\* string, or absent
Payloads ==
    { [json_ok |-> FALSE, fields |-> {}, domain |-> "absent"],
      [json_ok |-> TRUE, fields |-> required_fields, domain |-> "host"],
      [json_ok |-> TRUE, fields |-> required_fields, domain |-> "empty"],
      [json_ok |-> TRUE, fields |-> required_fields \ {"domain"}, domain |-> "absent"] }

MessageTypes == { "message", "subscribe" }

\* the fused scores the engines can arrive at, in thousandths
FinalScores == { 300, 700, 720, 750, 751, 1000 }

\* What the four engines do with one event: one of them raises, or the
\* fusion stage arrives at final_score
EngineOutcomes ==
    { [raises |-> TRUE, final_score |-> None] } \cup
    { [raises |-> FALSE, final_score |-> s] : s \in FinalScores }

NoPayload == [present |-> FALSE, final_score |-> None]

\* RiskFusion.analyze: the score against the threshold it was built with
RiskFusion_analyze(final_score, threshold) ==
    [final_score |-> final_score,
     should_alert |-> final_score > threshold,
     alert_payload |-> [present |-> TRUE, final_score |-> final_score]]

\* _process_log_event raising an alert for an event an engine failed on
MutAlertOnEngineError(log_data, engines) ==
    IF required_fields \ log_data.fields # {}
    THEN [alert_payload |-> NoPayload, kind |-> "missing", final_score |-> None,
          engines_invoked |-> FALSE]
    ELSE IF engines.raises
    THEN [alert_payload |-> [present |-> TRUE, final_score |-> 1000],
          kind |-> "raised", final_score |-> None, engines_invoked |-> TRUE]
    ELSE LET fusion_result == RiskFusion_analyze(engines.final_score, risk_threshold)
         IN  [alert_payload |-> IF fusion_result.should_alert
                                THEN fusion_result.alert_payload
                                ELSE NoPayload,
              kind |-> "scored", final_score |-> fusion_result.final_score,
              engines_invoked |-> TRUE]

\* _process_log_event: the alert payload or None, whether the pipeline ran
\* to the end, and whether the engines were called.  The field check is
\* "f not in log_data": a domain that is present and empty passes it.
process_log_event(log_data, engines) ==
    IF required_fields \ log_data.fields # {}
    THEN [alert_payload |-> NoPayload, kind |-> "missing", final_score |-> None,
          engines_invoked |-> FALSE]
    ELSE IF engines.raises
    THEN [alert_payload |-> NoPayload, kind |-> "raised", final_score |-> None,
          engines_invoked |-> TRUE]
    ELSE LET fusion_result == RiskFusion_analyze(engines.final_score, risk_threshold)
         IN  [alert_payload |-> IF fusion_result.should_alert
                                THEN fusion_result.alert_payload
                                ELSE NoPayload,
              kind |-> "scored", final_score |-> fusion_result.final_score,
              engines_invoked |-> TRUE]

\* _publish_alert: the published alerts and the alert counter it leaves
publish_alert(alert_payload, publish_ok, W) ==
    IF publish_ok
    THEN [alerts |-> Append(W.alerts,
                        [channel |-> alert_channel,
                         final_score |-> alert_payload.final_score,
                         total_processed |-> W.processed_count,
                         total_alerts |-> W.alert_count + 1]),
          alert_count |-> W.alert_count + 1]
    ELSE [alerts |-> W.alerts, alert_count |-> W.alert_count]

NoEvent ==
    [kind |-> "none", final_score |-> None, emitted |-> FALSE, alert_delta |-> 0,
     domain |-> "absent", engines_invoked |-> FALSE]

\* number of event messages delivered
MaxMessages == 3

\* The counters right after ShadowGuardWorker.__init__
WorkerInit ==
    /\ processed_count = 0
    /\ alert_count = 0
    /\ alerts = <<>>
    /\ received = 0
    /\ last_event = NoEvent

\* _handle_message(message): what it does to the counters and the alerts
handle_message ==
    \E type \in MessageTypes, data \in Payloads, engines \in EngineOutcomes,
       publish_ok \in BOOLEAN :
        /\ received < MaxMessages
        /\ IF type # "message"
           THEN /\ last_event' = [NoEvent EXCEPT !.kind = "ignored"]
                /\ UNCHANGED <<processed_count, alert_count, alerts, received>>
           ELSE IF ~data.json_ok
           THEN /\ received' = received + 1
                /\ last_event' = [NoEvent EXCEPT !.kind = "malformed"]
                /\ UNCHANGED <<processed_count, alert_count, alerts>>
           ELSE LET p == process_log_event(data, engines)
                    W == [processed_count |-> processed_count,
                          alert_count |-> alert_count, alerts |-> alerts]
                    after == IF p.alert_payload.present
                             THEN publish_alert(p.alert_payload, publish_ok, W)
                             ELSE [alerts |-> alerts, alert_count |-> alert_count]
                IN  /\ received' = received + 1
                    /\ alerts' = after.alerts
                    /\ alert_count' = after.alert_count
                    /\ processed_count' = processed_count + 1
                    /\ last_event' =
                          [kind |-> p.kind, final_score |-> p.final_score,
                           emitted |-> Len(after.alerts) > Len(alerts),
                           alert_delta |-> after.alert_count - alert_count,
                           domain |-> data.domain,
                           engines_invoked |-> p.engines_invoked]

\* One message handed to _handle_message, the worker taken as running
HandleMessage ==
    /\ handle_message
    /\ UNCHANGED <<not_worker_vars, lifecycle_vars>>

\* ------------------------------------------------------------------------
\* Worker process: __main__, initialize, run, stop (worker/worker.py)
\* ------------------------------------------------------------------------

\* the channel _connect_redis subscribes to
input_channel == "logs_input"

\* the connection fields stop() and _connect_redis work on
Conn ==
    [running |-> running, redis_conn |-> redis_conn, pubsub |-> pubsub,
     stats_printed |-> stats_printed]

\* stop(): nothing unless running; otherwise clear the flag, close the
\* subscription and the client, print the final statistics
stop(L) ==
    IF ~L.running
    THEN L
    ELSE [running |-> FALSE,
          pubsub |-> IF L.pubsub # "none" THEN "closed" ELSE L.pubsub,
          redis_conn |-> IF L.redis_conn # "none" THEN "closed" ELSE L.redis_conn,
          stats_printed |-> L.stats_printed + 1]

\* _connect_redis(): one attempt. A new client is assigned, then ping; when
\* the ping fails the exception is raised again and pubsub is left as it was
\* _connect_redis that opens a new client without subscribing again
MutNoResubscribe(L, up) ==
    IF up
    THEN [ok |-> TRUE, redis_conn |-> "open", pubsub |-> L.pubsub]
    ELSE [ok |-> FALSE, redis_conn |-> "unconnected", pubsub |-> L.pubsub]

connect_redis(L, up) ==
    IF up
    THEN [ok |-> TRUE, redis_conn |-> "open", pubsub |-> "subscribed"]
    ELSE [ok |-> FALSE, redis_conn |-> "unconnected", pubsub |-> L.pubsub]

\* number of event messages the main loop pulls
MaxLoopMessages == 2

\* number of signals delivered
MaxSignals == 2

\* number of times the store goes down or comes back
MaxOutages == 2

\* The process right after ShadowGuardWorker() in __main__
LifecycleInit ==
    /\ worker_pc = "constructed"
    /\ running = FALSE
    /\ redis_conn = "none"
    /\ pubsub = "none"
    /\ store_up \in BOOLEAN
    /\ connect_attempts = 0
    /\ reconnects = 0
    /\ reconnect_failed = FALSE
    /\ stats_printed = 0
    /\ signals = 0
    /\ outages = 0
    /\ exit_code = None

\* initialize(), step 1: _connect_redis(); a failure is raised up to __main__,
\* which logs it and calls sys.exit(1)
InitConnect ==
    /\ worker_pc = "constructed"
    /\ LET c == connect_redis(Conn, store_up)
       IN  /\ redis_conn' = c.redis_conn
           /\ pubsub' = c.pubsub
           /\ worker_pc' = IF c.ok THEN "engines" ELSE "exited"
           /\ exit_code' = IF c.ok THEN exit_code ELSE 1
    /\ connect_attempts' = connect_attempts + 1
    /\ UNCHANGED <<running, store_up, reconnects, reconnect_failed, stats_printed,
                   signals, outages>>
    /\ UNCHANGED <<not_worker_vars, worker_vars>>

\* initialize(), steps 2 and 3: _initialize_engines() and
\* _validate_initialization(); an engine that fails to load ends the process
InitEngines ==
    \E engines_ok \in BOOLEAN :
        /\ worker_pc = "engines"
        /\ worker_pc' = IF engines_ok THEN "run" ELSE "exited"
        /\ exit_code' = IF engines_ok THEN exit_code ELSE 1
        /\ UNCHANGED <<running, redis_conn, pubsub, store_up, connect_attempts,
                       reconnects, reconnect_failed, stats_printed, signals, outages>>
        /\ UNCHANGED <<not_worker_vars, worker_vars>>

\* run(), up to the loop: the components are set, running becomes True
RunStart ==
    /\ worker_pc = "run"
    /\ running' = TRUE
    /\ worker_pc' = "loop"
    /\ UNCHANGED <<redis_conn, pubsub, store_up, connect_attempts, reconnects,
                   reconnect_failed, stats_printed, signals, outages, exit_code>>
    /\ UNCHANGED <<not_worker_vars, worker_vars>>

\* while self.running
LoopCheck ==
    /\ worker_pc = "loop"
    /\ worker_pc' = IF running THEN "poll" ELSE "finally"
    /\ UNCHANGED <<running, redis_conn, pubsub, store_up, connect_attempts,
                   reconnects, reconnect_failed, stats_printed, signals, outages,
                   exit_code>>
    /\ UNCHANGED <<not_worker_vars, worker_vars>>

\* what pubsub.get_message(timeout=1.0) can do: return nothing, return a
\* message, raise redis.ConnectionError, raise another exception
PollOutcomes ==
    { o \in { "none", "message", "connection_error", "error" } :
        /\ o = "message"
              => store_up /\ pubsub = "subscribed" /\ received < MaxLoopMessages
        /\ o \in { "connection_error", "error" }
              => ~store_up \/ pubsub # "subscribed" }

\* message = self.pubsub.get_message(timeout=1.0) and the except clauses
\* around it
LoopPoll ==
    \E o \in PollOutcomes :
        /\ worker_pc = "poll"
        /\ worker_pc' = CASE o = "none" -> "loop"
                          [] o = "message" -> "handle"
                          [] o = "connection_error" -> "reconnect"
                          [] o = "error" -> "finally"
        /\ UNCHANGED <<running, redis_conn, pubsub, store_up, connect_attempts,
                       reconnects, reconnect_failed, stats_printed, signals, outages,
                       exit_code>>
        /\ UNCHANGED <<not_worker_vars, worker_vars>>

\* if message: self._handle_message(message)
LoopHandle ==
    /\ worker_pc = "handle"
    /\ handle_message
    /\ worker_pc' = "loop"
    /\ UNCHANGED <<running, redis_conn, pubsub, store_up, connect_attempts,
                   reconnects, reconnect_failed, stats_printed, signals, outages,
                   exit_code>>
    /\ UNCHANGED not_worker_vars

\* except redis.ConnectionError: sleep, _connect_redis(), break when it fails
LoopReconnect ==
    /\ worker_pc = "reconnect"
    /\ LET c == connect_redis(Conn, store_up)
       IN  /\ redis_conn' = c.redis_conn
           /\ pubsub' = c.pubsub
           /\ worker_pc' = IF c.ok THEN "loop" ELSE "finally"
           /\ reconnects' = IF c.ok THEN reconnects + 1 ELSE reconnects
           /\ reconnect_failed' = (reconnect_failed \/ ~c.ok)
    /\ connect_attempts' = connect_attempts + 1
    /\ UNCHANGED <<running, store_up, stats_printed, signals, outages, exit_code>>
    /\ UNCHANGED <<not_worker_vars, worker_vars>>

\* finally: self.stop(); return True; then sys.exit(0) in __main__
RunFinally ==
    /\ worker_pc = "finally"
    /\ LET L == stop(Conn)
       IN  /\ running' = L.running
           /\ redis_conn' = L.redis_conn
           /\ pubsub' = L.pubsub
           /\ stats_printed' = L.stats_printed
    /\ worker_pc' = "exited"
    /\ exit_code' = 0
    /\ UNCHANGED <<store_up, connect_attempts, reconnects, reconnect_failed,
                   signals, outages>>
    /\ UNCHANGED <<not_worker_vars, worker_vars>>

\* SIGINT or SIGTERM: _signal_handler calls stop() and returns to the
\* interrupted code
Signal ==
    /\ worker_pc # "exited"
    /\ signals < MaxSignals
    /\ signals' = signals + 1
    /\ LET L == stop(Conn)
       IN  /\ running' = L.running
           /\ redis_conn' = L.redis_conn
           /\ pubsub' = L.pubsub
           /\ stats_printed' = L.stats_printed
    /\ UNCHANGED <<worker_pc, store_up, connect_attempts, reconnects,
                   reconnect_failed, outages, exit_code>>
    /\ UNCHANGED <<not_worker_vars, worker_vars>>

\* The Redis server becomes unreachable, or reachable again
StoreFlip ==
    /\ worker_pc # "exited"
    /\ outages < MaxOutages
    /\ outages' = outages + 1
    /\ store_up' = ~store_up
    /\ UNCHANGED <<worker_pc, running, redis_conn, pubsub, connect_attempts,
                   reconnects, reconnect_failed, stats_printed, signals, exit_code>>
    /\ UNCHANGED <<not_worker_vars, worker_vars>>

\* the steps the worker process itself takes
WorkerStep ==
    \/ InitConnect
    \/ InitEngines
    \/ RunStart
    \/ LoopCheck
    \/ LoopPoll
    \/ LoopHandle
    \/ LoopReconnect
    \/ RunFinally

\* ------------------------------------------------------------------------
\* Dashboard: the alert list (dashboard/backend/services/redis_service.py)
\* ------------------------------------------------------------------------

\* the ids a status update may ask for; 9 is the id of no alert
RequestIds == { 1, 2, 9 }

\* two of the statuses the status route accepts
RequestStatuses == { "investigating", "resolved" }

\* the cap the list is trimmed to after a push
AlertListCap == 1000

\* number of alerts pushed, status updates requested, list resets
MaxPushes == 2
MaxUpdates == 1
MaxClears == 1

NoUpdate == [alert_id |-> None, status |-> "new", index |-> 0,
             alert |-> [id |-> None, status |-> "new", risk_score |-> 0]]

DashboardInit ==
    /\ alert_list = <<>>
    /\ update_pc = "idle"
    /\ update_req = NoUpdate
    /\ update_result = "none"
    /\ pushes = 0
    /\ updates = 0
    /\ clears = 0

\* the alert record a writer pushes: a fresh id, status new, and the other
\* fields, of which risk_score stands for all
AlertRecord(id) == [id |-> id, status |-> "new", risk_score |-> 74 + id]

\* A writer appends an alert record at the head of the list and trims the
\* list to its cap
PushAlert ==
    /\ pushes < MaxPushes
    /\ pushes' = pushes + 1
    /\ alert_list' = Take(<<AlertRecord(pushes + 1)>> \o alert_list, AlertListCap)
    /\ UNCHANGED <<update_pc, update_req, update_result, updates, clears>>
    /\ UNCHANGED not_dashboard_vars

\* the first position of raw_alerts whose alert has the id, 0 when none has
IndexOfId(raw_alerts, alert_id) ==
    IF \E i \in 1..Len(raw_alerts) : raw_alerts[i].id = alert_id
    THEN CHOOSE i \in 1..Len(raw_alerts) :
            /\ raw_alerts[i].id = alert_id
            /\ \A j \in 1..(i - 1) : raw_alerts[j].id # alert_id
    ELSE 0

\* update_alert up to its LSET: LRANGE of the whole list, the search for the
\* id, alert.update(updates); an id not found answers None at once
UpdateRead ==
    \E alert_id \in RequestIds, status \in RequestStatuses :
        LET raw_alerts == alert_list
            i == IndexOfId(raw_alerts, alert_id)
        IN  /\ update_pc = "idle"
            /\ updates < MaxUpdates
            /\ updates' = updates + 1
            /\ IF i = 0
               THEN /\ update_result' = "not_found"
                    /\ update_req' = [NoUpdate EXCEPT !.alert_id = alert_id,
                                                       !.status = status]
                    /\ update_pc' = "idle"
               ELSE /\ update_req' =
                          [alert_id |-> alert_id, status |-> status, index |-> i,
                           alert |-> [raw_alerts[i] EXCEPT !.status = status]]
                    /\ update_pc' = "found"
                    /\ UNCHANGED update_result
            /\ UNCHANGED <<alert_list, pushes, clears>>
            /\ UNCHANGED not_dashboard_vars

\* update_alert's LSET at the index found by the read; an index past the end
\* of the list makes LSET raise, which update_alert answers with None
UpdateWrite ==
    /\ update_pc = "found"
    /\ update_pc' = "idle"
    /\ IF update_req.index <= Len(alert_list)
       THEN /\ alert_list' = [alert_list EXCEPT ![update_req.index] = update_req.alert]
            /\ update_result' = "ok"
       ELSE /\ update_result' = "not_found"
            /\ UNCHANGED alert_list
    /\ UNCHANGED <<update_req, pushes, updates, clears>>
    /\ UNCHANGED not_dashboard_vars

\* clear_all_alerts: DEL of the list
ClearAll ==
    /\ clears < MaxClears
    /\ alert_list # <<>>
    /\ clears' = clears + 1
    /\ alert_list' = <<>>
    /\ UNCHANGED <<update_pc, update_req, update_result, pushes, updates>>
    /\ UNCHANGED not_dashboard_vars

\* the largest limit and offset a request carries
MaxLimit == 2
MaxOffset == 2

\* number of GET /api/alerts requests
MaxQueries == 2

NoQuery == [done |-> FALSE, limit |-> 0, offset |-> 0, list |-> <<>>,
            alerts |-> <<>>, count |-> 0]

QueryInit ==
    /\ query_out = NoQuery
    /\ queries = 0

\* LRANGE key start stop on a list: positions count from 0, a negative
\* position counts from the end, both ends are included and clipped to the
\* list
lrange(list, start, end) ==
    LET n == Len(list)
        from0 == IF start < 0 THEN n + start ELSE start
        from == IF from0 < 0 THEN 0 ELSE from0
        to0 == IF end < 0 THEN n + end ELSE end
        to == IF to0 >= n THEN n - 1 ELSE to0
    IN  IF from > to \/ from >= n THEN <<>> ELSE SubSeq(list, from + 1, to + 1)

\* get_alerts_paginated(limit, offset)
get_alerts_paginated(list, limit, offset) ==
    lrange(list, offset, offset + limit - 1)

\* GET /api/alerts?limit=..&offset=..
get_alerts ==
    \E limit \in 0..MaxLimit, offset \in 0..MaxOffset :
        /\ queries < MaxQueries
        /\ queries' = queries + 1
        /\ LET found == get_alerts_paginated(alert_list, limit, offset)
           IN  query_out' = [done |-> TRUE, limit |-> limit, offset |-> offset,
                             list |-> alert_list, alerts |-> found,
                             count |-> Len(found)]
        /\ UNCHANGED not_query_vars

\* ------------------------------------------------------------------------
\* The two domain normalizers on wrapped hosts
\* (fusion.py _normalize_domain, semantic.py _normalize_domain)
\* ------------------------------------------------------------------------

\* bare hosts
NormHosts == { github_com, claude_ai, files_wetransfer_com }

\* nothing, or http:// or https:// in some letter case
SchemePrefixes ==
    { <<>>, HttpPrefix, HttpsPrefix, Upper(HttpPrefix),
      <<"H", "t", "T", "p", "S", ":", "/", "/">> }

PortSuffixes == { <<>>, <<":", "8", "0", "8", "0">> }

\* no path, plain paths, and a path whose query carries a URL
PathSuffixes ==
    { <<>>, <<"/", "d", "o", "c", "s", "/", "x">>, <<"/", "a", ":", "b">>,
      <<"/", "r", "?", "u", "=", "h", "t", "t", "p", ":", "/", "/", "x", ".", "y">> }

\* scheme + www. + host + :port + /path
Wrap(scheme, www, host, port, path) ==
    scheme \o (IF www THEN WwwPrefix ELSE <<>>) \o host \o port \o path

NoNormResult ==
    [done |-> FALSE, fusion |-> <<>>, semantic |-> <<>>,
     fusion_alone |-> <<>>, semantic_alone |-> <<>>]

NormalizeInit ==
    /\ \E host \in NormHosts, scheme \in SchemePrefixes, www \in BOOLEAN,
          port \in PortSuffixes, path \in PathSuffixes, upper \in BOOLEAN :
          norm_in = [host |-> host, scheme |-> scheme, www |-> www, port |-> port,
                     path |-> path, upper |-> upper,
                     wrapped |-> Wrap(scheme, www,
                                      IF upper THEN Upper(host) ELSE host,
                                      port, path)]
    /\ norm_out = NoNormResult

NormalizeIdle ==
    /\ norm_in = [host |-> <<>>, scheme |-> <<>>, www |-> FALSE, port |-> <<>>,
                  path |-> <<>>, upper |-> FALSE, wrapped |-> <<>>]
    /\ norm_out = NoNormResult

\* Both normalizers called on the wrapped spelling and on the host alone
Normalize ==
    /\ ~norm_out.done
    /\ norm_out' = [done |-> TRUE,
                    fusion |-> Fusion_normalize_domain(norm_in.wrapped),
                    semantic |-> Semantic_normalize_domain(norm_in.wrapped),
                    fusion_alone |-> Fusion_normalize_domain(norm_in.host),
                    semantic_alone |-> Semantic_normalize_domain(norm_in.host)]
    /\ UNCHANGED <<norm_in, weights_vars, rules_vars>>
    /\ UNCHANGED not_pure_vars

\* what may stand once more in front of a wrapped host: nothing, a second
\* www., a second scheme
RepeatPrefixes == { <<>>, WwwPrefix, HttpPrefix, HttpsPrefix }

NoTwiceResult ==
    [done |-> FALSE, fusion_once |-> <<>>, fusion_twice |-> <<>>,
     semantic_once |-> <<>>, semantic_twice |-> <<>>]

NormalizeTwiceInit ==
    /\ \E repeat \in RepeatPrefixes, host \in NormHosts, scheme \in SchemePrefixes,
          www \in BOOLEAN, port \in PortSuffixes, path \in PathSuffixes :
          norm_in = [host |-> host, scheme |-> scheme, www |-> www, port |-> port,
                     path |-> path, upper |-> FALSE,
                     wrapped |-> repeat \o Wrap(scheme, www, host, port, path)]
    /\ norm_out = NoTwiceResult

\* Each normalizer called on the string, and again on what it returned
NormalizeTwice ==
    /\ ~norm_out.done
    /\ LET f == Fusion_normalize_domain(norm_in.wrapped)
           s == Semantic_normalize_domain(norm_in.wrapped)
       IN  norm_out' = [done |-> TRUE,
                        fusion_once |-> f,
                        fusion_twice |-> Fusion_normalize_domain(f),
                        semantic_once |-> s,
                        semantic_twice |-> Semantic_normalize_domain(s)]
    /\ UNCHANGED <<norm_in, weights_vars, rules_vars>>
    /\ UNCHANGED not_pure_vars

\* ------------------------------------------------------------------------
\* Fusion weights: two engines constructed with proportional weights
\* (fusion.py __init__ 37-44, fuse 322-328)
\* ------------------------------------------------------------------------

\* (behavior_weight, semantic_weight) pairs passed to the constructor; a
\* weight w stands for w / 100 where a fraction is meant
WeightPairs == { <<1, 3>>, <<3, 7>>, <<1, 1>>, <<0, 5>>, <<0, 0>>, <<-1, -1>> }

\* the factor between the first pair and the second
WeightScales == { 2, 25 }

NoWeightsResult ==
    [done |-> FALSE,
     first |-> FusionEngine_init(0, 0, <<>>, <<>>), second |-> FusionEngine_init(0, 0, <<>>, <<>>),
     first_result |-> NoFuseResult, second_result |-> NoFuseResult]

WeightsInit ==
    /\ \E w \in WeightPairs, k \in WeightScales,
          d \in { claude_ai, github_com, notwetransfer_com },
          meth \in { "GET", "POST" }, sz \in { 0, 11 * Mebibyte },
          b \in BehaviorScores, f \in BOOLEAN, sr \in SemanticScores :
          weights_in =
              [first |-> w, second |-> <<k * w[1], k * w[2]>>,
               call |-> [domain |-> d, url |-> url_upload, method |-> meth,
                         upload_size_bytes |-> sz,
                         behavior_result |-> [behavior_score |-> b, is_first_visit |-> f],
                         semantic_result |-> [risk_score |-> sr]]]
    /\ weights_out = NoWeightsResult

WeightsIdle ==
    /\ weights_in = [first |-> <<0, 0>>, second |-> <<0, 0>>, call |-> <<>>]
    /\ weights_out = NoWeightsResult

\* Two engines constructed with the two weight pairs, fuse called on each
\* with the same arguments
FuseBoth ==
    LET first == FusionEngine_init(weights_in.first[1], weights_in.first[2],
                                   <<>>, <<>>)
        second == FusionEngine_init(weights_in.second[1], weights_in.second[2],
                                    <<>>, <<>>)
    IN  /\ ~weights_out.done
        /\ weights_out' = [done |-> TRUE, first |-> first, second |-> second,
                           first_result |-> fuse(first, weights_in.call),
                           second_result |-> fuse(second, weights_in.call)]
        /\ UNCHANGED <<weights_in, normalize_vars, rules_vars>>
        /\ UNCHANGED not_pure_vars

\* ------------------------------------------------------------------------
\* Rule engine (worker/rules.py)
\* ------------------------------------------------------------------------

\* RuleEngine.suspicious_patterns: each regular expression is literal parts
\* with .* between them, a part being one literal or an alternation
suspicious_patterns ==
    <<
      <<{ <<"t", "e", "m", "p", "-">> }, { <<".", "c", "o", "m">>, <<".", "i", "o">>, <<".", "n", "e", "t">> }>>,
      <<{ <<"a", "n", "o", "n", "y", "m", "o", "u", "s">> }, { <<".", "c", "o", "m">>, <<".", "i", "o">>, <<".", "o", "r", "g">> }>>,
      <<{ <<"s", "t", "e", "a", "l", "t", "h">> }, { <<".", "c", "o", "m">>, <<".", "i", "o">>, <<".", "n", "e", "t">> }>>,
      <<{ <<"l", "e", "a", "k">> }, { <<".", "c", "o", "m">>, <<".", "i", "o">>, <<".", "n", "e", "t">> }>>,
      <<{ <<"u", "p", "l", "o", "a", "d">> }, { <<"a", "n", "o", "n", "y", "m", "o", "u", "s">> }>>,
      <<{ <<"q", "u", "i", "c", "k">> }, { <<"a", "i">> }, { <<".", "c", "o", "m">>, <<".", "i", "o">> }>>,
      <<{ <<"-", "g", "p", "t">> }, { <<".", "c", "o", "m">>, <<".", "i", "o">>, <<".", "n", "e", "t">> }>>,
      <<{ <<"a", "i", "-", "w", "r", "i", "t", "e", "r">> }, { <<".", "c", "o", "m">>, <<".", "i", "o">> }>>
    >>

\* the end of the leftmost occurrence in s, at or after position from, of
\* one of the literals; 0 when none occurs
FirstEnd(s, from, literals) ==
    LET ends == { i + Len(l) - 1 : i \in from..Len(s), l \in literals }
        hits == { e \in ends : \E l \in literals :
                     /\ e - Len(l) + 1 >= from
                     /\ e <= Len(s)
                     /\ SubSeq(s, e - Len(l) + 1, e) = l }
    IN  IF hits = {} THEN 0
        ELSE CHOOSE e \in hits : \A f \in hits : e <= f

\* pattern.search(s) for a pattern of that form: the parts occur in order
RECURSIVE SearchFrom(_, _, _, _)
SearchFrom(s, from, parts, k) ==
    IF k > Len(parts) THEN TRUE
    ELSE LET e == FirstEnd(s, from, parts[k])
         IN  e # 0 /\ SearchFrom(s, e + 1, parts, k + 1)

\* re.IGNORECASE search
pattern_search(parts, s) == SearchFrom(Lower(s), 1, parts, 1)

\* RuleEngine.check_blacklist
check_blacklist(self, domain) == Lower(domain) \in self.blacklist

\* RuleEngine.check_file_size, threshold_mb = 10
check_file_size(upload_size_bytes) == upload_size_bytes > 10 * Mebibyte

\* RuleEngine.check_suspicious_patterns
check_suspicious_patterns(domain, url) ==
    \E i \in 1..Len(suspicious_patterns) :
        \/ pattern_search(suspicious_patterns[i], domain)
        \/ pattern_search(suspicious_patterns[i], domain \o url)

suspicious_keywords == { <<"t", "e", "m", "p">>, <<"a", "n", "o", "n", "y", "m", "o", "u", "s">>, <<"l", "e", "a", "k">>, <<"e", "x", "p", "o", "r", "t">>, <<"s", "t", "e", "a", "l", "t", "h">> }

\* RuleEngine.check_unknown_domain
check_unknown_domain(self, domain) ==
    /\ Lower(domain) \notin self.safe_domains
    /\ \E keyword \in suspicious_keywords : Contains(Lower(domain), keyword)

\* score += w when the check triggered
Contribution(triggered, w) == IF triggered THEN w ELSE 0

\* alerts.append(code) when the check triggered
Code(triggered, code) == IF triggered THEN <<code>> ELSE <<>>

\* RuleEngine.analyze
RuleEngine_analyze(self, log_event) ==
    LET is_blacklisted == check_blacklist(self, log_event.domain)
        is_large_upload == check_file_size(log_event.upload_size_bytes)
        is_suspicious == check_suspicious_patterns(log_event.domain, log_event.url)
        is_unknown == check_unknown_domain(self, log_event.domain)
        score == Contribution(is_blacklisted, 800)
                 + Contribution(is_large_upload, 500)
                 + Contribution(is_suspicious, 600)
                 + Contribution(is_unknown, 300)
    IN  [rule_score |-> IF score < 1000 THEN score ELSE 1000,
         rule_alerts |-> Code(is_blacklisted, "blacklist_hit")
                         \o Code(is_large_upload, "large_upload")
                         \o Code(is_suspicious, "suspicious_pattern")
                         \o Code(is_unknown, "unknown_domain")]

\* domains and URLs of the drawn log events
temp_share_io == <<"t", "e", "m", "p", "-", "s", "h", "a", "r", "e", ".", "i", "o">>
data_export_org == <<"d", "a", "t", "a", "e", "x", "p", "o", "r", "t", ".", "o", "r", "g">>
evil_com == <<"e", "v", "i", "l", ".", "c", "o", "m">>
RuleDomains == { github_com, claude_ai, temp_share_io, data_export_org, evil_com }

url_root == <<"/">>
url_paste == <<"/", "p", "a", "s", "t", "e", "/", "n", "e", "w">>
url_port == <<"h", "t", "t", "p", "s", ":", "/", "/", "g", "i", "t", "h", "u", "b", ".", "c", "o", "m", ":", "8", "4", "4", "3", "/", "x">>
RuleUrls == { url_root, url_upload, url_paste, url_port }

RuleSizes == { 0, 10 * Mebibyte, 11 * Mebibyte }

\* the lists load_knowledge_base leaves: empty when the file is absent
RuleLists ==
    { [blacklist |-> {}, safe_domains |-> {}],
      [blacklist |-> { evil_com }, safe_domains |-> { github_com }],
      [blacklist |-> { evil_com, temp_share_io }, safe_domains |-> { data_export_org }] }

NoRuleResult == [done |-> FALSE, rule_score |-> None, rule_alerts |-> <<>>]

RulesInit ==
    /\ \E self \in RuleLists, d \in RuleDomains, u \in RuleUrls, sz \in RuleSizes :
          rules_in = [self |-> self,
                      log_event |-> [domain |-> d, url |-> u, upload_size_bytes |-> sz]]
    /\ rules_out = NoRuleResult

RulesIdle ==
    /\ rules_in = [self |-> [blacklist |-> {}, safe_domains |-> {}],
                   log_event |-> [domain |-> <<>>, url |-> <<>>, upload_size_bytes |-> 0]]
    /\ rules_out = NoRuleResult

\* One call of RuleEngine.analyze on the drawn event
RuleAnalyze ==
    LET r == RuleEngine_analyze(rules_in.self, rules_in.log_event)
    IN  /\ ~rules_out.done
        /\ rules_out' = [done |-> TRUE, rule_score |-> r.rule_score,
                         rule_alerts |-> r.rule_alerts]
        /\ UNCHANGED <<rules_in, normalize_vars, weights_vars>>
        /\ UNCHANGED not_pure_vars

\* ------------------------------------------------------------------------
\* Two BehaviorEngine instances on one store
\* (behavior.py _store_user_activity, command by command)
\* ------------------------------------------------------------------------

\* the processes that construct a BehaviorEngine on the same host, port and db
Engines == { "worker", "monitor" }

\* number of _store_user_activity calls started
MaxStoreCalls == 3

NoLocal == [key |-> <<"", <<>>>>, timestamp |-> None, upload_size |-> 0,
            existing |-> NoRecord]

SharedInit ==
    /\ engine_pc = [e \in Engines |-> "idle"]
    /\ engine_local = [e \in Engines |-> NoLocal]
    /\ completed = [k \in BehaviorKeys |-> 0]
    /\ store_calls = 0

\* _store_user_activity of instance e up to its GET: lpush, ltrim, expire
\* of the user list, then existing_data = get(domain_key)
StoreRead(e) ==
    \E u \in BehaviorUsers, d \in BehaviorDomains, ts \in FaultEventTimes,
       sz \in EventSizes :
        /\ engine_pc[e] = "idle"
        /\ store_calls < MaxStoreCalls
        /\ store_calls' = store_calls + 1
        /\ user_activity' =
              [user_activity EXCEPT ![u] =
                  Take(<<[domain |-> d, timestamp |-> ts, upload_size |-> sz]>> \o @,
                       ActivityCap)]
        /\ user_expire' = [user_expire EXCEPT ![u] = now + HistoryTtl]
        /\ engine_local' = [engine_local EXCEPT ![e] =
                               [key |-> <<u, d>>, timestamp |-> ts, upload_size |-> sz,
                                existing |-> domain_data[<<u, d>>]]]
        /\ engine_pc' = [engine_pc EXCEPT ![e] = "got"]
        /\ UNCHANGED <<redis_client, domain_data, domain_expire, now, behavior_out,
                       behavior_calls, clock_steps, seen, completed>>
        /\ UNCHANGED not_shared_vars

\* the rest of _store_user_activity of instance e: domain_data computed from
\* the existing_data it read, then set and expire
StoreWrite(e) ==
    LET l == engine_local[e]
        domain_rec ==
            IF l.existing # NoRecord
            THEN [first_visit |-> l.existing.first_visit,
                  last_visit |-> l.timestamp,
                  visit_count |-> l.existing.visit_count + 1,
                  total_upload_size |-> l.existing.total_upload_size + l.upload_size]
            ELSE [first_visit |-> l.timestamp, last_visit |-> l.timestamp,
                  visit_count |-> 1, total_upload_size |-> l.upload_size]
    IN  /\ engine_pc[e] = "got"
        /\ domain_data' = [domain_data EXCEPT ![l.key] = domain_rec]
        /\ domain_expire' = [domain_expire EXCEPT ![l.key] = now + HistoryTtl]
        /\ completed' = [completed EXCEPT ![l.key] = @ + 1]
        /\ engine_pc' = [engine_pc EXCEPT ![e] = "idle"]
        /\ engine_local' = [engine_local EXCEPT ![e] = NoLocal]
        /\ UNCHANGED <<redis_client, user_activity, user_expire, now, behavior_out,
                       behavior_calls, clock_steps, seen, store_calls>>
        /\ UNCHANGED not_shared_vars

WorkerStoreRead == StoreRead("worker")
WorkerStoreWrite == StoreWrite("worker")
MonitorStoreRead == StoreRead("monitor")
MonitorStoreWrite == StoreWrite("monitor")

\* ------------------------------------------------------------------------
\* Ingestion: the collector's /logs endpoint, the channel, the subscribers
\* (collector/app/api/routes/routes_collect.py, worker/worker.py)
\* ------------------------------------------------------------------------

\* the channel collect_log publishes on
collector_channel == "events"

\* the processes that subscribe to a channel of the store, and the channel
\* each one names in its subscribe call
Subscribers == { "worker", "monitor" }
SubscribeChannel == [ worker |-> input_channel, monitor |-> "events" ]

\* number of events the collector accepts
MaxAccepted == 3

\* number of get_message calls
MaxPolls == 3

IngestInit ==
    /\ subscriptions = [s \in Subscribers |-> "none"]
    /\ queues = [s \in Subscribers |-> <<>>]
    /\ accepted = <<>>
    /\ ingested = <<>>
    /\ ingest_polls = 0

\* PUBLISH: the message is handed to the subscribers of that channel and
\* kept nowhere else
publish(Q, channel, message) ==
    [s \in Subscribers |->
        IF subscriptions[s] = channel THEN Append(Q[s], message) ELSE Q[s]]

\* pubsub.subscribe(channel) of subscriber s; for the worker this is
\* _connect_redis, after which initialize() goes on to READY
Subscribe(s) ==
    /\ subscriptions[s] = "none"
    /\ subscriptions' = [subscriptions EXCEPT ![s] = SubscribeChannel[s]]
    /\ UNCHANGED <<queues, accepted, ingested, ingest_polls>>
    /\ UNCHANGED not_ingest_vars

WorkerSubscribe == Subscribe("worker")
MonitorSubscribe == Subscribe("monitor")

\* POST /logs: publish the log on the collector's channel, answer "received"
collect_log ==
    \E u \in BehaviorUsers, d \in BehaviorDomains :
        /\ Len(accepted) < MaxAccepted
        /\ LET log == [id |-> Len(accepted) + 1, user_id |-> u, domain |-> d]
           IN  /\ queues' = publish(queues, collector_channel, log)
               /\ accepted' =
                     Append(accepted,
                            [log |-> log,
                             worker_ready |-> subscriptions["worker"] # "none"])
        /\ UNCHANGED <<subscriptions, ingested, ingest_polls>>
        /\ UNCHANGED not_ingest_vars

\* pubsub.get_message(timeout=1.0) of subscriber s: the oldest message
\* waiting for it, or None; the worker's loop hands a message to
\* _handle_message
GetMessage(s) ==
    /\ subscriptions[s] # "none"
    /\ ingest_polls < MaxPolls
    /\ ingest_polls' = ingest_polls + 1
    /\ IF queues[s] = <<>>
       THEN UNCHANGED <<queues, ingested>>
       ELSE /\ queues' = [queues EXCEPT ![s] = Tail(@)]
            /\ ingested' = IF s = "worker"
                           THEN Append(ingested, Head(queues[s]))
                           ELSE ingested
    /\ UNCHANGED <<subscriptions, accepted>>
    /\ UNCHANGED not_ingest_vars

WorkerGetMessage == GetMessage("worker")
MonitorGetMessage == GetMessage("monitor")

\* ------------------------------------------------------------------------
\* Specifications
\* ------------------------------------------------------------------------

FusionIdle ==
    /\ fusion_engine = FusionEngine_init(3, 7, <<>>, <<>>)
    /\ fuse_in = [domain |-> <<>>, url |-> <<>>, method |-> "GET",
                  upload_size_bytes |-> 0,
                  behavior_result |-> [behavior_score |-> 0, is_first_visit |-> FALSE],
                  semantic_result |-> [risk_score |-> 0]]
    /\ fuse_out = NoFuseResult

BehaviorIdle == BehaviorInit /\ redis_client = TRUE

SemanticIdle == SemanticInit /\ offline_mode = FALSE

WorkerIdle == WorkerInit

\* no stand-alone call of a pure method drawn
PureIdle ==
    /\ NormalizeIdle /\ WeightsIdle /\ RulesIdle /\ SharedInit /\ IngestInit
    /\ QueryInit

\* the process before initialize(), the store reachable, the list empty
LifecycleIdle == LifecycleInit /\ store_up = TRUE /\ DashboardInit /\ PureIdle

\* the process inside the main loop, a message in hand
LifecycleReady ==
    /\ worker_pc = "handle"
    /\ running = TRUE
    /\ redis_conn = "open"
    /\ pubsub = "subscribed"
    /\ store_up = TRUE
    /\ connect_attempts = 1
    /\ reconnects = 0
    /\ reconnect_failed = FALSE
    /\ stats_printed = 0
    /\ signals = 0
    /\ outages = 0
    /\ exit_code = None
    /\ DashboardInit
    /\ PureIdle

\* The fusion engine applied once to drawn arguments
FusionNext == Fuse

InitFusion == FusionInit /\ BehaviorIdle /\ SemanticIdle /\ WorkerIdle /\ LifecycleIdle

SpecFusion == InitFusion /\ [][FusionNext]_vars

BehaviorNext == AnalyzeFault

\* The behaviour engine on a store whose commands may fail
InitBehavior ==
    FusionIdle /\ BehaviorInit /\ SemanticIdle /\ WorkerIdle /\ LifecycleIdle

SpecBehavior == InitBehavior /\ [][BehaviorNext]_vars

BehaviorUpNext == AnalyzeOk \/ AdvanceTime

\* The behaviour engine on a store that is reachable throughout
InitBehaviorUp ==
    FusionIdle /\ BehaviorIdle /\ SemanticIdle /\ WorkerIdle /\ LifecycleIdle

SpecBehaviorUp == InitBehaviorUp /\ [][BehaviorUpNext]_vars

BehaviorKeysNext == AnalyzeOk \/ AnalyzeWrapped

\* The behaviour engine given plain and wrapped spellings of a domain
InitBehaviorKeys ==
    FusionIdle /\ BehaviorIdle /\ SemanticIdle /\ WorkerIdle /\ LifecycleIdle

SpecBehaviorKeys == InitBehaviorKeys /\ [][BehaviorKeysNext]_vars

SharedNext ==
    WorkerStoreRead \/ WorkerStoreWrite \/ MonitorStoreRead \/ MonitorStoreWrite

\* Two behaviour engines storing activities in one store, their Redis
\* commands interleaved
InitShared ==
    FusionIdle /\ BehaviorIdle /\ SemanticIdle /\ WorkerIdle /\ LifecycleIdle

SpecShared == InitShared /\ [][SharedNext]_vars

IngestNext ==
    \/ WorkerSubscribe
    \/ MonitorSubscribe
    \/ collect_log
    \/ WorkerGetMessage
    \/ MonitorGetMessage

\* The collector publishing events, the worker and the monitor pulling them
InitIngest ==
    FusionIdle /\ BehaviorIdle /\ SemanticIdle /\ WorkerIdle /\ LifecycleIdle

SpecIngest == InitIngest /\ [][IngestNext]_vars

QueryNext == PushAlert \/ ClearAll \/ get_alerts

\* The alert list pushed to and cleared while pages of it are requested
InitQuery ==
    FusionIdle /\ BehaviorIdle /\ SemanticIdle /\ WorkerIdle /\ LifecycleIdle

SpecQuery == InitQuery /\ [][QueryNext]_vars

SemanticNext == SemanticAnalyze

\* The semantic engine called repeatedly, online or offline
InitSemantic ==
    FusionIdle /\ BehaviorIdle /\ SemanticInit /\ WorkerIdle /\ LifecycleIdle

SpecSemantic == InitSemantic /\ [][SemanticNext]_vars

WorkerNext == HandleMessage

\* The worker handling the messages its subscription delivers
InitWorker ==
    FusionIdle /\ BehaviorIdle /\ SemanticIdle /\ WorkerInit /\ LifecycleReady

SpecWorker == InitWorker /\ [][WorkerNext]_vars

LifecycleNext == WorkerStep \/ Signal \/ StoreFlip

\* The worker process from construction to exit, with signals and store
\* outages; the process keeps taking its own steps while it has one
InitLifecycle ==
    /\ FusionIdle /\ BehaviorIdle /\ SemanticIdle /\ WorkerInit /\ LifecycleInit
    /\ DashboardInit /\ PureIdle

SpecLifecycle ==
    InitLifecycle /\ [][LifecycleNext]_vars /\ WF_vars(WorkerStep)

NormalizeNext == Normalize

\* The two normalizers applied once to a drawn host and wrapping
InitNormalize ==
    /\ FusionIdle /\ BehaviorIdle /\ SemanticIdle /\ WorkerIdle /\ LifecycleInit
    /\ store_up = TRUE
    /\ DashboardInit
    /\ NormalizeInit /\ WeightsIdle /\ RulesIdle /\ SharedInit /\ IngestInit
    /\ QueryInit

SpecNormalize == InitNormalize /\ [][NormalizeNext]_vars

IdempotentNext == NormalizeTwice

\* The two normalizers applied twice in a row to a drawn string
InitIdempotent ==
    /\ FusionIdle /\ BehaviorIdle /\ SemanticIdle /\ WorkerIdle /\ LifecycleInit
    /\ store_up = TRUE
    /\ DashboardInit
    /\ NormalizeTwiceInit /\ WeightsIdle /\ RulesIdle /\ SharedInit /\ IngestInit
    /\ QueryInit

SpecIdempotent == InitIdempotent /\ [][IdempotentNext]_vars

WeightsNext == FuseBoth

\* Two fusion engines with proportional weights, each called once
InitWeights ==
    /\ FusionIdle /\ BehaviorIdle /\ SemanticIdle /\ WorkerIdle /\ LifecycleInit
    /\ store_up = TRUE
    /\ DashboardInit
    /\ NormalizeIdle /\ WeightsInit /\ RulesIdle /\ SharedInit /\ IngestInit
    /\ QueryInit

SpecWeights == InitWeights /\ [][WeightsNext]_vars

RulesNext == RuleAnalyze

\* The rule engine called once on a drawn event
InitRules ==
    /\ FusionIdle /\ BehaviorIdle /\ SemanticIdle /\ WorkerIdle /\ LifecycleInit
    /\ store_up = TRUE
    /\ DashboardInit
    /\ NormalizeIdle /\ WeightsIdle /\ RulesInit /\ SharedInit /\ IngestInit
    /\ QueryInit

SpecRules == InitRules /\ [][RulesNext]_vars

DashboardNext == HandleMessage \/ PushAlert \/ UpdateRead \/ UpdateWrite \/ ClearAll

\* The worker handling messages while the alert list is pushed to, updated
\* and cleared
InitDashboard ==
    FusionIdle /\ BehaviorIdle /\ SemanticIdle /\ WorkerInit /\ LifecycleReady

SpecDashboard == InitDashboard /\ [][DashboardNext]_vars



\* ------------------------------------------------------------------------
\* Properties of the fusion engine
\* ------------------------------------------------------------------------

FuseCalled == fuse_out.fusion_method # "none"

InBlacklist ==
    is_match(Fusion_normalize_domain(fuse_in.domain), fusion_engine.blacklist)

InWhitelist ==
    is_match(Fusion_normalize_domain(fuse_in.domain), fusion_engine.whitelist)

\* C1: every fuse call on a domain that, once normalised, equals a blacklist
\* entry or is a subdomain of one, and is not whitelisted, returns final
\* score 1.0, level CRITICAL and override = true, whatever the method, URL,
\* upload size and behaviour / semantic inputs.
C1_BlacklistAlwaysCritical ==
    (FuseCalled /\ InBlacklist /\ ~InWhitelist)
        => /\ fuse_out.final_risk_score = 1000
           /\ fuse_out.risk_level = "CRITICAL"
           /\ fuse_out.override = TRUE

\* C2: every fuse call on a domain that, once normalised, equals a whitelist
\* entry or is a subdomain of one returns final score 0.0, level SAFE and
\* override = true, whatever the method, URL, upload size, behaviour result
\* and semantic result.
C2_WhitelistAlwaysSafe ==
    (FuseCalled /\ InWhitelist)
        => /\ fuse_out.final_risk_score = 0
           /\ fuse_out.risk_level = "SAFE"
           /\ fuse_out.override = TRUE

\* A whitelisted subdomain that is also blacklisted, sent with POST and a
\* high-risk semantic result, has been fused.
C2_Witness ==
    /\ FuseCalled /\ InWhitelist /\ InBlacklist
    /\ UpperMethod(fuse_in.method) = "POST"
    /\ fuse_in.semantic_result.risk_score >= 900
    /\ fuse_out.fusion_method = "explicit_list_override"

\* The band table of the risk levels, on a score in thousandths
BandOf(score) ==
    IF score >= 800 THEN "CRITICAL"
    ELSE IF score >= 600 THEN "HIGH"
    ELSE IF score >= 400 THEN "MEDIUM"
    ELSE IF score >= 200 THEN "LOW"
    ELSE "SAFE"

\* C3: the final score fuse returns lies in [0,1] and the returned risk
\* level is exactly the band of that returned final score.
C3_LevelIsBandOfReturnedScore ==
    FuseCalled
        => /\ fuse_out.final_risk_score >= 0
           /\ fuse_out.final_risk_score <= 1000
           /\ fuse_out.risk_level = BandOf(fuse_out.final_risk_score)

\* C4: in every non-override result each reported component score
\* (behavior_score, semantic_score, context_semantic_score) lies in [0,1]
\* when the incoming behaviour and semantic scores do.
C4_ComponentScoresInUnitInterval ==
    (FuseCalled /\ ~fuse_out.override)
        => /\ fuse_out.behavior_score \in 0..1000
           /\ fuse_out.semantic_score \in 0..1000
           /\ fuse_out.context_semantic_score \in 0..1000


\* C24: in every non-override fusion the context-adjusted semantic score is
\* the semantic risk score multiplied by the upload multiplier only, so for
\* GET and the other read methods, whose upload multiplier is 1.0, it equals
\* the semantic risk score unchanged.
C24_ContextIsRiskTimesUpload ==
    fuse_out.fusion_method = "context_aware_weighted"
        => /\ fuse_out.context_semantic_score =
                 RoundHalfEven(fuse_out.semantic_score * fuse_out.upload_multiplier, 10)
           /\ UpperMethod(fuse_in.method) \notin { "POST", "PUT" }
                 => /\ fuse_out.upload_multiplier = 10
                    /\ fuse_out.context_semantic_score = fuse_out.semantic_score

\* ------------------------------------------------------------------------
\* Properties of the behaviour engine
\* ------------------------------------------------------------------------

\* C5: with a reachable store, the first analyze call for a (user, domain)
\* pair reports is_first_visit = true, and every later call for the pair
\* before the record expires reports is_first_visit = false and a
\* visit_count strictly greater than the one the previous call saw.
C5_FirstVisitThenCounting ==
    \A k \in BehaviorKeys :
        /\ seen[k].calls = 1 => seen[k].first
        /\ seen[k].calls > 1 => (~seen[k].first /\ seen[k].cur > seen[k].prev)

\* A third call for one pair has returned, the clock having moved since
\* the record was created.
C5_Witness ==
    \E k \in BehaviorKeys :
        /\ seen[k].calls = 3
        /\ ~seen[k].first
        /\ seen[k].prev = 2
        /\ seen[k].cur = 3
        /\ clock_steps > 0

\* C6: when the store is unreachable or one of its reads or writes fails
\* during analyze, the call returns the neutral result: score 0.0 and
\* is_first_visit = false.
C6_StoreErrorGivesNeutral ==
    (behavior_out.called /\ behavior_out.store_error)
        => /\ behavior_out.behavior_score = 0
           /\ behavior_out.is_first_visit = FALSE

\* C21: whenever a domain history record exists its visit_count is at least
\* 1, and from one state to the next in which the record still exists its
\* first_visit is the same and its visit_count is not smaller, for any
\* sequence of analyze calls and key expiries.
C21_RecordMonotone ==
    [][\A k \in BehaviorKeys :
          /\ domain_data[k] # NoRecord => domain_data[k].visit_count >= 1
          /\ domain_data'[k] # NoRecord => domain_data'[k].visit_count >= 1
          /\ (domain_data[k] # NoRecord /\ domain_data'[k] # NoRecord)
                => /\ domain_data'[k].first_visit = domain_data[k].first_visit
                   /\ domain_data'[k].visit_count >= domain_data[k].visit_count]_vars

\* a record updated twice with later timestamps than its first
C21_Witness ==
    \E k \in BehaviorKeys :
        /\ domain_data[k].visit_count = 3
        /\ domain_data[k].first_visit = 20
        /\ domain_data[k].last_visit = 46

\* C22: a domain history record is retained for 30 days counted from its
\* most recent update: every analyze call that writes the record of a key
\* leaves that key expiring 30 days after the call, and touches the expiry
\* of no other key.
C22_ThirtyDayRetention ==
    [][behavior_calls' = behavior_calls + 1
          => \A k \in BehaviorKeys :
                IF k = <<behavior_out'.user_id, behavior_out'.domain>>
                THEN domain_expire'[k] = now + 30 * HalfHoursPerDay
                ELSE domain_expire'[k] = domain_expire[k]]_vars

\* the timestamps, in recorded order, of the hits on the domain that the
\* user's window holds within the last 24 hours before t
WindowHits(activities, t, domain) ==
    LET hit(a) == /\ a.domain = domain
                  /\ a.timestamp # None
                  /\ a.timestamp > t - time_window_hours * HalfHoursPerHour
    IN  SelectSeq(activities, hit)

\* more than 10 hits, or three hits less than one hour apart, anywhere in
\* the window
FrequencyExpected(activities, t, domain) ==
    LET hits == WindowHits(activities, t, domain)
    IN  \/ Len(hits) > 10
        \/ \E i, j, k \in 1..Len(hits) :
              /\ i < j /\ j < k
              /\ \A x, y \in { i, j, k } :
                    hits[x].timestamp - hits[y].timestamp < HalfHoursPerHour

\* C23: the frequency check raises an anomaly exactly when the window holds
\* more than 10 hits on the event's domain within the last 24 hours, or at
\* least 3 hits on it within one 1-hour span, in whichever order the events
\* were recorded and wherever in the window those 3 hits are.
C23_FrequencyExactly ==
    [][behavior_calls' = behavior_calls + 1
          => (("frequency_anomaly" \in behavior_out'.behavior_alerts)
                <=> FrequencyExpected(user_activity'[behavior_out'.user_id], now',
                                      behavior_out'.domain))]_vars

\* C25: the behaviour engine keys its history by the normalized domain: when
\* the user already has a record for a host, an event whose domain is a
\* wrapped spelling of that host (scheme, www., port, path, letter case)
\* updates that record and is not reported as a first visit.
C25_KeyedByNormalizedDomain ==
    [][\A u \in BehaviorUsers, h \in BehaviorDomains :
          (/\ behavior_calls' = behavior_calls + 1
           /\ behavior_out'.user_id = u
           /\ Fusion_normalize_domain(behavior_out'.domain) = h
           /\ domain_data[<<u, h>>] # NoRecord)
             => /\ ~behavior_out'.is_first_visit
                /\ domain_data'[<<u, h>>].visit_count
                      = domain_data[<<u, h>>].visit_count + 1]_vars

\* C26: for every (user, domain) key, visit_count equals the number of
\* completed _store_user_activity calls for the key since the record was
\* created, for every interleaving of the store reads and writes of two
\* BehaviorEngine instances sharing one store: no increment is lost.
C26_NoLostIncrement ==
    \A k \in BehaviorKeys : domain_data[k].visit_count = completed[k]

\* ------------------------------------------------------------------------
\* Semantic engine properties
\* ------------------------------------------------------------------------

\* the normalized domain of the last analyze call
SemCleanDomain == Semantic_normalize_domain(semantic_out.domain_arg)

\* the domain equals, or is a subdomain of, a configured informational domain
InformationalDomain(d) ==
    \E i \in 1..Len(INFORMATIONAL_DOMAINS) :
        d = INFORMATIONAL_DOMAINS[i] \/ EndsWith(d, <<".">> \o INFORMATIONAL_DOMAINS[i])

C8_FastPathNeverFromCache ==
    (semantic_out.called
        /\ ~is_content_consumption(SemCleanDomain, semantic_out.url_arg))
        => ~(/\ semantic_out.result.risk_score = 10000
             /\ semantic_out.result.top_category = "content_consumption")

\* ------------------------------------------------------------------------
\* Worker properties
\* ------------------------------------------------------------------------

\* C9: for an event that completes the pipeline, an alert is emitted and the
\* alert counter grows by exactly one if and only if the final score is
\* strictly above the alert threshold 0.7; otherwise nothing is emitted and
\* the counter is unchanged.
C9_AlertIffAboveThreshold ==
    last_event.kind = "scored"
        => IF last_event.final_score > 700
           THEN last_event.emitted /\ last_event.alert_delta = 1
           ELSE ~last_event.emitted /\ last_event.alert_delta = 0

\* C10: the processed counter counts every event message received, the
\* malformed, the incomplete and the failed ones included.
C10_ProcessedCountsEveryMessage ==
    processed_count = received

\* ------------------------------------------------------------------------
\* Worker process properties
\* ------------------------------------------------------------------------

\* C11: a malformed-JSON payload or an engine exception drops only that
\* event: the step that handles it emits no alert, leaves the worker running
\* and the process alive, and returns to the top of the loop, from where later
\* events are pulled.
C11_DropOnlyThatEvent ==
    [][(/\ worker_pc = "handle"
        /\ received' = received + 1
        /\ last_event'.kind \in { "malformed", "raised" })
          => /\ alerts' = alerts
             /\ alert_count' = alert_count
             /\ running' = running
             /\ exit_code' = None
             /\ worker_pc' = "loop"]_vars

\* C11 witness: an event was dropped as malformed and a later one has been
\* scored, the worker still running at the top of its loop
C11_Witness ==
    /\ worker_pc = "loop"
    /\ running
    /\ received = 2
    /\ processed_count = 1
    /\ last_event.kind = "scored"

\* C12: at startup the connection is retried up to 5 times; the process
\* treats it as fatally failed and exits only after all 5 attempts failed.
C12_ExitOnlyAfterFiveAttempts ==
    (worker_pc = "exited" /\ exit_code = 1 /\ redis_conn = "unconnected")
        => connect_attempts >= 5

\* the process has ended after cleanup: subscription and client closed, the
\* final counters printed exactly once
Stopped ==
    /\ worker_pc = "exited"
    /\ pubsub # "subscribed"
    /\ redis_conn # "open"
    /\ stats_printed = 1

\* C13: whenever a signal has been received, at any point after construction,
\* the worker eventually reaches STOPPED with the subscription and the store
\* connection closed and the final counters printed exactly once.
C13_SignalLeadsToStopped ==
    (signals > 0) ~> Stopped
\* C19: when the connection is lost in the main loop the reconnection is
\* made inline: if it succeeds the worker is subscribed to the input channel
\* again on an open connection and goes on with the loop, as running as it
\* was; if it fails the loop is left for the cleanup, after which the
\* subscription and the client are closed and the final counters printed.
C19_ReconnectInline ==
    [][/\ (worker_pc = "reconnect" /\ worker_pc' # "reconnect")
            => IF store_up
               THEN /\ worker_pc' = "loop"
                    /\ redis_conn' = "open"
                    /\ pubsub' = "subscribed"
                    /\ running' = running
                    /\ reconnects' = reconnects + 1
               ELSE /\ worker_pc' = "finally"
                    /\ reconnect_failed'
       /\ (reconnect_failed /\ worker_pc = "finally" /\ worker_pc' # "finally")
            => /\ worker_pc' = "exited"
               /\ pubsub' # "subscribed"
               /\ redis_conn' # "open"
               /\ ~running'
               /\ stats_printed' = 1]_vars

\* a message in hand that was polled after a reconnection
C19_Witness ==
    /\ reconnects = 1
    /\ worker_pc = "handle"
    /\ running
    /\ pubsub = "subscribed"
    /\ redis_conn = "open"
    /\ signals = 0

\* C20: an event whose domain field is missing or empty is dropped before
\* any engine is invoked: no rule, semantic, behaviour or fusion analysis
\* runs for it (so no behaviour state is written) and no alert is emitted.
C20_NoDomainNoEngines ==
    (last_event.kind \in { "missing", "raised", "scored" }
     /\ last_event.domain \in { "absent", "empty" })
        => /\ ~last_event.engines_invoked
           /\ ~last_event.emitted
           /\ last_event.alert_delta = 0

\* C28: the counters in the worker_metadata of every published alert are
\* consistent: total_alerts is never greater than total_processed, and both
\* count the event that triggered the alert (the i-th published alert
\* reports i alerts and at least i processed events).
C28_AlertCountersConsistent ==
    \A i \in 1..Len(alerts) :
        /\ alerts[i].total_alerts <= alerts[i].total_processed
        /\ alerts[i].total_alerts = i
        /\ alerts[i].total_processed >= i

\* ------------------------------------------------------------------------
\* Properties of the alert list
\* ------------------------------------------------------------------------

\* C14: every alert the worker emits is appended to the persisted alert
\* list the dashboard reads (and the list is then trimmed to its 1000 most
\* recent entries): a step that emits an alert puts a new entry at the head
\* of the list.
C14_EmittedAlertAppended ==
    [][alert_count' = alert_count + 1
          => /\ alert_list' # alert_list
             /\ Len(alert_list') = IF Len(alert_list) < AlertListCap
                                   THEN Len(alert_list) + 1
                                   ELSE AlertListCap]_vars

\* C15: a status update for alert id X changes only the status field of the
\* alert whose id is X: under any interleaving with pushes, the write of
\* an update leaves the list as long as it was and every entry as it was,
\* except that entries with id X may have taken the requested status.
C15_UpdateChangesOnlyStatusOfX ==
    [][(update_pc = "found" /\ update_pc' = "idle")
          => /\ Len(alert_list') = Len(alert_list)
             /\ \A i \in 1..Len(alert_list) :
                    \/ alert_list'[i] = alert_list[i]
                    \/ /\ alert_list[i].id = update_req.alert_id
                       /\ alert_list'[i] =
                             [alert_list[i] EXCEPT !.status = update_req.status]]_vars

\* C30: get_alerts(limit, offset) returns at most limit alerts, namely
\* those at list positions offset .. offset+limit-1 in most-recent-first
\* order, and the reported count never exceeds limit, for every limit >= 0
\* and offset >= 0; limit = 0 returns no alerts.
C30_PageWithinLimit ==
    query_out.done
        => LET n == Len(query_out.list)
               last == IF query_out.offset + query_out.limit < n
                       THEN query_out.offset + query_out.limit
                       ELSE n
           IN  /\ Len(query_out.alerts) <= query_out.limit
               /\ query_out.count <= query_out.limit
               /\ query_out.alerts = SubSeq(query_out.list, query_out.offset + 1, last)
               /\ (query_out.limit = 0 => query_out.alerts = <<>>)

\* ------------------------------------------------------------------------
\* Properties of the domain normalizers
\* ------------------------------------------------------------------------

NormSame ==
    /\ norm_out.fusion = norm_out.fusion_alone
    /\ norm_out.semantic = norm_out.semantic_alone
    /\ norm_out.fusion = Lower(norm_out.fusion)
    /\ norm_out.semantic = Lower(norm_out.semantic)

\* C16: for any host h, h wrapped in any combination of a scheme (http://
\* or https:// in any letter case), a leading www., a :port and a /path, in
\* any letter case, normalizes to the same lowercase token as h alone, in
\* both the fusion and the semantic normalizer.
C16_WrappedSame == norm_out.done => NormSame

\* C29: domain normalization is idempotent: for every input string s,
\* normalize(normalize(s)) = normalize(s), in the fusion engine's and in
\* the semantic engine's normalizer, inputs with repeated www. prefixes or
\* repeated scheme prefixes included.
C29_NormalizeIdempotent ==
    norm_out.done
        => /\ norm_out.fusion_twice = norm_out.fusion_once
           /\ norm_out.semantic_twice = norm_out.semantic_once

\* ------------------------------------------------------------------------
\* Properties of the fusion weights
\* ------------------------------------------------------------------------

\* behavior_weight + semantic_weight = 1.0
SumsToOne(engine) ==
    engine.weight_den > 0 /\ engine.behavior_num + engine.semantic_num = engine.weight_den

\* the two engines hold the same weights
SameWeights(a, b) ==
    /\ a.behavior_num * b.weight_den = b.behavior_num * a.weight_den
    /\ a.semantic_num * b.weight_den = b.semantic_num * a.weight_den

UnusualPathKeyword(url) ==
    \E keyword \in { <<"u", "p", "l", "o", "a", "d">>, <<"p", "a", "s", "t", "e">>, <<"e", "x", "p", "o", "r", "t">>, <<"s", "h", "a", "r", "e">> } : Contains(Lower(url), keyword)

\* the URL names a port other than 80 and 443 (of the drawn URLs, url_port)
UncommonPort(url) == Contains(url, <<":", "8", "4", "4", "3">>)

\* the contributions C18 lists for the event
C18_Sum ==
    LET e == rules_in.log_event
    IN  Contribution(check_blacklist(rules_in.self, e.domain), 800)
        + Contribution(check_file_size(e.upload_size_bytes), 500)
        + Contribution(check_suspicious_patterns(e.domain, e.url), 600)
        + Contribution(check_unknown_domain(rules_in.self, e.domain), 300)
        + Contribution(UnusualPathKeyword(e.url), 400)
        + Contribution(UncommonPort(e.url), 400)

\* C18: RuleEngine.analyze returns min(1.0, sum of the contributions of the
\* triggered checks): blacklist +0.8, upload over the threshold +0.5,
\* suspicious naming pattern +0.6, unknown-domain keyword +0.3, unusual URL
\* path keyword +0.4, uncommon port in the URL +0.4.
C18_ScoreIsCappedSum ==
    rules_out.done
        => rules_out.rule_score = IF C18_Sum < 1000 THEN C18_Sum ELSE 1000

\* ------------------------------------------------------------------------
\* Ingestion properties
\* ------------------------------------------------------------------------

\* number of times log is in the sequence q
Occurrences(q, log) == Cardinality({ i \in 1..Len(q) : q[i] = log })

\* C27: every event accepted by POST /logs while the worker is READY is
\* delivered to the worker's consumption loop, and handled at most once:
\* it is waiting on the worker's subscription or has been pulled by the
\* loop, once in all; the collector publishes on the channel the worker is
\* subscribed to.
C27_AcceptedReachesWorker ==
    \A i \in 1..Len(accepted) :
        accepted[i].worker_ready =>
            Occurrences(queues["worker"], accepted[i].log)
                + Occurrences(ingested, accepted[i].log) = 1

====
